---- MODULE Spec2Model ----
(***************************************************************************)
(* Model of the collection side of the Instagram analytics project:        *)
(* data/collectors.py (UserDataCollector), config/instagram_client.py      *)
(* (InstagramClient) and the relational schema of data/models.py that      *)
(* scripts/setup_database.py creates (Base.metadata.create_all).           *)
(*                                                                         *)
(* A run starts at pc = "idle" on a database that an earlier run has       *)
(* already written one account to.  The caller then either issues direct   *)
(* store_* calls or invokes one of the three collection operations, which  *)
(* proceeds loop iteration by loop iteration until pc = "done".  An        *)
(* exception that leaves an operation would end the run at pc = "aborted". *)
(*                                                                         *)
(* The analysis side (analysis/preference_analysis.py,                     *)
(* analysis/simplified_preference_analysis.py, data/processors.py) is the  *)
(* second specification, AnalysisSpec: it starts at pc = "an_idle" on a    *)
(* store that holds posts and likes of the target user, or at              *)
(* pc = "an_pure" for the functions that read no store.                    *)
(***************************************************************************)
EXTENDS Integers, Sequences, FiniteSets, TLC

\* ------------------------------------------------------------------ bounds
\* The literal 1000 of `len(network_users) < 1000` (collectors.py:136),
\* scaled down so that the cap is reached.
SafetyLimit == 3
\* The literal 100 of `network_users[:100]` (collectors.py:179), scaled down.
UserCap == 2
\* Most posts the platform returns for one account (at most amount=10).
MaxPosts == 1
\* Longest post_list handed to check_target_user_likes.
MaxPostList == 2
\* Direct store_* calls in one run.
MaxStoreCalls == 3
\* Persistence / platform faults injected in one run.
MaxFaults == 1

\* settings.MAX_API_CALLS_PER_HOUR (200, settings.py:32), scaled down so that
\* a run reaches it.
MAX_API_CALLS_PER_HOUR == 2

\* ------------------------------------------------------- program constants
\* `int(os.getenv('RATE_LIMIT_MIN', 2))`, `int(os.getenv('RATE_LIMIT_MAX', 5))`
\* (instagram_client.py:69-70), in seconds.
RATE_LIMIT_MIN == 2
RATE_LIMIT_MAX == 5
\* The hourly window of the rate limiter, in seconds (rate_limiter.py:24).
HOUR == 3600
\* `min_likes=10000` (collectors.py:173, settings.DEFAULT_MIN_LIKES).
DEFAULT_MIN_LIKES == 10000

\* ------------------------------------------------------------------ inputs
\* Platform accounts; Root is the target_user_id of the analysis.
Users == {"t", "a", "b"}
Root == "t"
\* A follow list names each account at most once; the lists drawn here leave
\* at least one account out.
MaxFollow == Cardinality(Users) - 1
\* Arguments the callers pass for max_depth and max_users_per_level.
DepthChoices == 0 .. 3
PerLevelChoices == 1 .. MaxFollow
\* like_count values around the threshold.
LikeCounts == {DEFAULT_MIN_LIKES - 1, DEFAULT_MIN_LIKES, DEFAULT_MIN_LIKES + 1}
\* Accounts whose posts are collected, and the posts checked for likes.
Authors == {"a", "b"}
PostIds == {<<"a", 1>>, <<"b", 1>>}

\* ------------------------------------------------------------------ state
VARIABLES
    pc,                 \* position of the running operation
    op,                 \* operation the caller invoked
    faults,             \* faults injected so far
    users,              \* table users            (rows in insertion order)
    user_network,       \* table user_network
    posts,              \* table posts
    target_user_likes,  \* table target_user_likes
    follow,             \* platform: account -> ordered accounts it follows
    max_depth,          \* build_social_network argument
    max_users_per_level,\* build_social_network argument
    queue,              \* BFS frontier: sequence of [user, depth]
    visited,            \* set of expanded user ids
    network_users,      \* list built by the crawl / argument of the collection
    cur,                \* (current_user_id, depth) of the crawl iteration
    following,          \* rest of the follow list still to process
    min_likes,          \* collect_high_engagement_posts argument
    che_rest,           \* users of network_users[:100] still to process
    che_posts,          \* rest of the fetched posts of the current user
    high_engagement_posts, \* list built by collect_high_engagement_posts
    post_list,          \* check_target_user_likes argument
    ctl_rest,           \* posts of post_list still to check
    found_likes,        \* list built by check_target_user_likes
    api_log,            \* external platform calls made: [fn, arg, ok, ret],
                        \* with the number of pauses taken before the call
    expand_log,         \* frontier entries that were expanded: [user, depth]
    edge_writes,        \* arguments of every store_network_relationship call
    store_log,          \* direct store_* calls: [fn, row, fault]
    rate_waits,         \* number of rate_limit_wait pauses taken
    hashtag_analysis,   \* table hashtag_analysis
    an_call,            \* the analysis call made last: [fn, analyzer, ...]
    an_result,          \* what that call returned, or the exception it raised
    an_calls,           \* number of analysis calls made
    clock,              \* time.time(), in seconds
    limiter,            \* the RateLimiter object: its fields
    wait_log,           \* one record per RateLimiter.wait() call
    retry               \* the retry_with_backoff call in progress

db == <<users, user_network, posts, target_user_likes>>
crawl_vars == <<follow, max_depth, max_users_per_level, queue, visited, cur,
                following, expand_log>>
che_vars == <<min_likes, che_rest, che_posts, high_engagement_posts>>
ctl_vars == <<post_list, ctl_rest, found_likes>>

an_vars == <<hashtag_analysis, an_call, an_result, an_calls>>

util_vars == <<clock, limiter, wait_log, retry>>

vars == <<pc, op, faults, db, crawl_vars, network_users, che_vars, ctl_vars,
          api_log, edge_writes, store_log, rate_waits, an_vars, util_vars>>

\* No RateLimiter has been made and retry_with_backoff has not been called.
utilities_unused ==
    /\ clock = 0
    /\ limiter = [made |-> FALSE]
    /\ wait_log = <<>>
    /\ retry = [called |-> FALSE]

\* ------------------------------------------------------------ sequences
\* Sequences of distinct elements of S of length at most n: the key order of
\* the mapping user_id -> UserInfo that the platform client returns.
DistinctSeqs(S, n) ==
    {s \in UNION {[1 .. k -> S] : k \in 0 .. n} :
        \A i, j \in DOMAIN s : i # j => s[i] # s[j]}

\* Sequences over S of length at most n.
SeqsUpTo(S, n) == UNION {[1 .. k -> S] : k \in 0 .. n}

\* Python's s[:n] for n >= 0.
Take(s, n) == SubSeq(s, 1, IF n < Len(s) THEN n ELSE Len(s))

Range(s) == {s[i] : i \in DOMAIN s}

\* ------------------------------------------------------------ the schema
\* Column sets that carry a primary key or unique constraint in models.py.
\* user_network and target_user_likes declare only the surrogate key `id`.
UniqueKeys(table) ==
    CASE table = "users" -> {{"user_id"}, {"username"}}
      [] table = "user_network" -> {{"id"}}
      [] table = "posts" -> {{"post_id"}}
      [] table = "target_user_likes" -> {{"id"}}

Proj(row, cols) == [c \in cols |-> row[c]]

KeyTaken(rows, row, cols) ==
    \E i \in DOMAIN rows : Proj(rows[i], cols) = Proj(row, cols)

\* A new row breaks a unique constraint other than the conflict target.
OtherKeyTaken(table, rows, row, cols) ==
    \E k \in UniqueKeys(table) \ {cols} :
        k \subseteq DOMAIN row /\ KeyTaken(rows, row, k)

\* INSERT ... ON CONFLICT (cols) DO NOTHING, as PostgreSQL executes it: the
\* conflict target must be a declared unique key, otherwise the statement is
\* rejected ("there is no unique or exclusion constraint matching the ON
\* CONFLICT specification") and the caller's except branch rolls back.
\* refs_ok: the row's foreign keys point at existing rows.
InsertOrNothing(table, rows, cols, row, refs_ok) ==
    IF cols \notin UniqueKeys(table)
    THEN [ok |-> FALSE, rows |-> rows]
    ELSE IF KeyTaken(rows, row, cols)
         THEN [ok |-> TRUE, rows |-> rows]
         ELSE IF OtherKeyTaken(table, rows, row, cols) \/ ~refs_ok
              THEN [ok |-> FALSE, rows |-> rows]
              ELSE [ok |-> TRUE, rows |-> Append(rows, row)]

\* INSERT ... ON CONFLICT (cols) DO UPDATE SET upd = EXCLUDED.upd
InsertOrUpdate(table, rows, cols, row, upd, refs_ok) ==
    IF cols \notin UniqueKeys(table)
    THEN [ok |-> FALSE, rows |-> rows]
    ELSE IF KeyTaken(rows, row, cols)
         THEN [ok |-> TRUE,
               rows |-> [i \in DOMAIN rows |->
                           IF Proj(rows[i], cols) = Proj(row, cols)
                           THEN [c \in DOMAIN rows[i] |->
                                   IF c \in upd THEN row[c] ELSE rows[i][c]]
                           ELSE rows[i]]]
         ELSE IF OtherKeyTaken(table, rows, row, cols) \/ ~refs_ok
              THEN [ok |-> FALSE, rows |-> rows]
              ELSE [ok |-> TRUE, rows |-> Append(rows, row)]

\* users.user_id values, the target of every ForeignKey('users.user_id').
UserIds(urows) == {urows[i].user_id : i \in DOMAIN urows}

\* ------------------------------------------------------------ store_*
\* A store_user whose failure handling rolls back more than the failed record:
\* the rows committed by earlier calls are gone as well.
store_user_rolling_back_all(rows, user_data, fault) ==
    LET r == InsertOrUpdate("users", rows, {"user_id"}, user_data,
                            {"follower_count"}, TRUE)
    IN IF fault \/ ~r.ok THEN <<>> ELSE r.rows

\* Each store_* commits on success and rolls back on any exception, so the
\* table is either the statement's result or unchanged, and the call returns
\* normally.  `fault` stands for an exception raised by the connection.
store_user(rows, user_data, fault) ==
    LET r == InsertOrUpdate("users", rows, {"user_id"}, user_data,
                            {"follower_count"}, TRUE)
    IN IF fault \/ ~r.ok THEN rows ELSE r.rows

\* store_network_relationship without its ON CONFLICT clause: a plain INSERT
\* into a table that declares no unique key on the triple.
store_network_relationship_plain_insert(rows, source_user_id, target_user_id, depth, fault) ==
    IF fault THEN rows
    ELSE Append(rows, [source_user_id |-> source_user_id,
                       target_user_id |-> target_user_id,
                       relationship_type |-> "following",
                       network_depth |-> depth])

store_network_relationship(rows, source_user_id, target_user_id, depth, fault) ==
    LET row == [source_user_id |-> source_user_id,
                target_user_id |-> target_user_id,
                relationship_type |-> "following",
                network_depth |-> depth]
        r == InsertOrNothing("user_network", rows,
                             {"source_user_id", "target_user_id",
                              "relationship_type"}, row,
                             {source_user_id, target_user_id}
                                 \subseteq UserIds(users))
    IN IF fault \/ ~r.ok THEN rows ELSE r.rows

store_post(rows, post_data, fault) ==
    LET r == InsertOrUpdate("posts", rows, {"post_id"}, post_data,
                            {"like_count"},
                            post_data.author_user_id \in UserIds(users))
    IN IF fault \/ ~r.ok THEN rows ELSE r.rows

store_user_like(rows, like_data, fault) ==
    LET r == InsertOrNothing("target_user_likes", rows,
                             {"target_user_id", "post_id"}, like_data,
                             /\ like_data.target_user_id \in UserIds(users)
                             /\ \E i \in DOMAIN posts :
                                   posts[i].post_id = like_data.post_id)
    IN IF fault \/ ~r.ok THEN rows ELSE r.rows

\* ------------------------------------------------------------ platform
\* The profile the platform reports for an account.
UserInfo(u) == [user_id |-> u, username |-> u, follower_count |-> 1]

\* get_user_following without its try/except: a failed platform call raises.
get_user_following_unguarded(user_id, amount, fails) ==
    IF fails THEN [raised |-> TRUE, value |-> <<>>]
    ELSE [raised |-> FALSE, value |-> Take(follow[user_id], amount)]

\* The InstagramClient getters wrap the platform call in try/except and
\* answer an empty collection when it fails; `raised` tells the caller whether
\* an exception leaves the getter.
get_user_following(user_id, amount, fails) ==
    IF fails THEN [raised |-> FALSE, value |-> <<>>]
    ELSE [raised |-> FALSE, value |-> Take(follow[user_id], amount)]

get_user_medias(medias, fails) ==
    IF fails THEN [raised |-> FALSE, value |-> <<>>]
    ELSE [raised |-> FALSE, value |-> medias]

get_media_likers(likers, fails) ==
    IF fails THEN [raised |-> FALSE, value |-> {}]
    ELSE [raised |-> FALSE, value |-> likers]

\* A fault may be injected while the budget lasts.
Faulty == {FALSE} \cup (IF faults < MaxFaults THEN {TRUE} ELSE {})

Count(b) == IF b THEN 1 ELSE 0

\* Follow relations of the platform: every account, the root included, may
\* follow any accounts (itself too), in the order the client lists them.
Graphs == [Users -> DistinctSeqs(Users, MaxFollow)]

\* InstagramClient.rate_limit_wait: `time.sleep(random.uniform(min_delay,
\* max_delay))`; the seconds one pause can last.
rate_limit_wait == RATE_LIMIT_MIN .. RATE_LIMIT_MAX

\* ------------------------------------------------- build_social_network
\* Reading the head of the queue without removing it.
queue_peek(q) == [entry |-> Head(q), rest |-> q]

\* `queue.pop(0)`: the entry taken and the queue left.
queue_pop(q) == [entry |-> Head(q), rest |-> Tail(q)]

\* Recording a found account at the depth of the entry that found it.
edge_depth_of_source(depth) == depth

\* The depth handed to store_network_relationship for an account found while
\* expanding an entry of the given depth (`depth + 1`, collectors.py:159).
edge_depth(depth) == depth + 1

\* `while queue and len(network_users) < 1000`
bsn_loop_condition == queue # <<>> /\ Len(network_users) < SafetyLimit

\* The skip test without the visited set.
bsn_skip_condition_depth_only(entry) == entry.depth >= max_depth

\* `if current_user_id in visited or depth >= max_depth: continue`
bsn_skip_condition(entry) == entry.user \in visited \/ entry.depth >= max_depth

\* An enqueue test that always holds.
next_level_always(depth) == TRUE

\* `if depth + 1 < max_depth:` before `queue.append((str(user_id), depth + 1))`
next_level_wanted(depth) == depth + 1 < max_depth

\* A list that takes an account only the first time it is met.
network_users_add(list, user_id) == IF \E i \in DOMAIN list : list[i] = user_id THEN list ELSE Append(list, user_id)

\* `network_users.append(str(user_id))`
network_users_append(list, user_id) == Append(list, user_id)

\* Entry of build_social_network(target_user_id, max_depth, max_users_per_level).
build_social_network ==
    /\ pc = "idle"
    /\ op' = "crawl"
    /\ follow' \in Graphs
    /\ max_depth' \in DepthChoices
    /\ max_users_per_level' \in PerLevelChoices
    /\ queue' = <<[user |-> Root, depth |-> 0]>>
    /\ visited' = {}
    /\ network_users' = <<>>
    /\ pc' = "bsn_while"
    /\ UNCHANGED <<faults, db, cur, following, expand_log, che_vars, ctl_vars,
                   api_log, edge_writes, store_log, rate_waits>>
    /\ UNCHANGED <<an_vars, util_vars>>

\* The loop condition is false: log and return network_users.
bsn_return ==
    /\ pc = "bsn_while"
    /\ ~bsn_loop_condition
    /\ pc' = "done"
    /\ UNCHANGED <<op, faults, db, crawl_vars, network_users, che_vars,
                   ctl_vars, api_log, edge_writes, store_log, rate_waits>>
    /\ UNCHANGED <<an_vars, util_vars>>

\* queue.pop(0) of an entry that is skipped by `continue`.
bsn_skip ==
    /\ pc = "bsn_while"
    /\ bsn_loop_condition
    /\ bsn_skip_condition(queue_pop(queue).entry)
    /\ cur' = queue_pop(queue).entry
    /\ queue' = queue_pop(queue).rest
    /\ UNCHANGED <<pc, op, faults, db, follow, max_depth, max_users_per_level,
                   visited, network_users, following, expand_log, che_vars,
                   ctl_vars, api_log, edge_writes, store_log, rate_waits>>
    /\ UNCHANGED <<an_vars, util_vars>>

\* queue.pop(0), visited.add, get_user_following and the [:max_users_per_level]
\* cut.  Nothing catches an exception here: one leaving the getter would end
\* the crawl.
bsn_expand ==
    /\ pc = "bsn_while"
    /\ bsn_loop_condition
    /\ ~bsn_skip_condition(queue_pop(queue).entry)
    /\ \E fails \in Faulty :
         LET entry == queue_pop(queue).entry
             r == get_user_following(entry.user, max_users_per_level, fails)
             list == IF r.raised THEN <<>>
                     ELSE Take(r.value, max_users_per_level)
         IN /\ cur' = entry
            /\ queue' = queue_pop(queue).rest
            /\ visited' = visited \cup {entry.user}
            /\ following' = list
            /\ api_log' = Append(api_log, [fn |-> "user_following",
                                           arg |-> entry.user,
                                           ok |-> ~fails,
                                           ret |-> list,
                                           waits |-> rate_waits])
            /\ expand_log' = Append(expand_log, entry)
            /\ faults' = faults + Count(fails)
            /\ pc' = IF r.raised THEN "aborted" ELSE "bsn_for"
    /\ UNCHANGED <<op, db, follow, max_depth, max_users_per_level,
                   network_users, che_vars, ctl_vars, edge_writes, store_log,
                   rate_waits>>
    /\ UNCHANGED <<an_vars, util_vars>>

\* One pass of `for user_id, user_info in ...`: store_user,
\* store_network_relationship, append, and the enqueue for the next level.
bsn_for ==
    /\ pc = "bsn_for"
    /\ following # <<>>
    /\ \E f1, f2 \in Faulty :
         LET user_id == Head(following)
         IN /\ faults + Count(f1) + Count(f2) <= MaxFaults
            /\ users' = store_user(users, UserInfo(user_id), f1)
            /\ user_network' = store_network_relationship(
                                   user_network, cur.user, user_id,
                                   edge_depth(cur.depth), f2)
            /\ edge_writes' = Append(edge_writes,
                                     [source |-> cur.user, target |-> user_id,
                                      depth |-> edge_depth(cur.depth),
                                      fault |-> f2])
            /\ network_users' = network_users_append(network_users, user_id)
            /\ queue' = IF next_level_wanted(cur.depth)
                        THEN Append(queue, [user |-> user_id,
                                            depth |-> cur.depth + 1])
                        ELSE queue
            /\ following' = Tail(following)
            /\ faults' = faults + Count(f1) + Count(f2)
    /\ UNCHANGED <<pc, op, posts, target_user_likes, follow, max_depth,
                   max_users_per_level, visited, cur, expand_log, che_vars,
                   ctl_vars, api_log, store_log, rate_waits>>
    /\ UNCHANGED <<an_vars, util_vars>>

\* `self.ig_client.rate_limit_wait()` closing the iteration.
bsn_rate_limit_wait ==
    /\ pc = "bsn_for"
    /\ following = <<>>
    /\ rate_waits' = rate_waits + 1
    /\ pc' = "bsn_while"
    /\ UNCHANGED <<op, faults, db, crawl_vars, network_users, che_vars,
                   ctl_vars, api_log, edge_writes, store_log>>
    /\ UNCHANGED <<an_vars, util_vars>>

\* ---------------------------------------- collect_high_engagement_posts
\* Answers the platform can give for the recent posts of an account.
MediaLists(user_id) ==
    {[i \in 1 .. n |-> [pk |-> <<user_id, i>>, like_count |-> c[i]]] :
        n \in 0 .. MaxPosts, c \in [1 .. MaxPosts -> LikeCounts]}

\* A strict threshold test.
qualifies_strictly(post, threshold) == post.like_count > threshold

\* `if post.like_count >= min_likes`
qualifies(post, threshold) == post.like_count >= threshold

\* `for user_id in network_users[:100]`
users_within_cap(list) == Take(list, UserCap)

\* Entry of collect_high_engagement_posts(network_users, min_likes).
collect_high_engagement_posts ==
    /\ pc = "idle"
    /\ op' = "collect"
    /\ network_users' \in SeqsUpTo(Authors, UserCap + 1)
    /\ min_likes' = DEFAULT_MIN_LIKES
    /\ che_rest' = users_within_cap(network_users')
    /\ che_posts' = <<>>
    /\ high_engagement_posts' = <<>>
    /\ pc' = "che_for_user"
    /\ UNCHANGED <<faults, db, crawl_vars, ctl_vars, api_log, edge_writes,
                   store_log, rate_waits>>
    /\ UNCHANGED <<an_vars, util_vars>>

\* The list is exhausted: log and return high_engagement_posts.
che_return ==
    /\ pc = "che_for_user"
    /\ che_rest = <<>>
    /\ pc' = "done"
    /\ UNCHANGED <<op, faults, db, crawl_vars, network_users, che_vars,
                   ctl_vars, api_log, edge_writes, store_log, rate_waits>>
    /\ UNCHANGED <<an_vars, util_vars>>

\* `posts = self.ig_client.get_user_medias(user_id, amount=10)` inside the
\* try: an exception is logged and `continue` moves to the next user.
che_fetch ==
    /\ pc = "che_for_user"
    /\ che_rest # <<>>
    /\ \E fails \in Faulty, medias \in MediaLists(Head(che_rest)) :
         LET r == get_user_medias(medias, fails)
         IN /\ api_log' = Append(api_log, [fn |-> "user_medias",
                                           arg |-> Head(che_rest),
                                           ok |-> ~fails,
                                           ret |-> IF r.raised THEN <<>>
                                                   ELSE r.value,
                                           waits |-> rate_waits])
            /\ faults' = faults + Count(fails)
            /\ IF r.raised
               THEN /\ che_rest' = Tail(che_rest)
                    /\ UNCHANGED <<pc, che_posts>>
               ELSE /\ che_posts' = r.value
                    /\ pc' = "che_for_post"
                    /\ UNCHANGED che_rest
    /\ UNCHANGED <<op, db, crawl_vars, network_users, min_likes,
                   high_engagement_posts, ctl_vars, edge_writes, store_log,
                   rate_waits>>
    /\ UNCHANGED <<an_vars, util_vars>>

\* One pass of `for post in posts`.
che_post ==
    /\ pc = "che_for_post"
    /\ che_posts # <<>>
    /\ LET post == Head(che_posts)
           post_data == [post_id |-> post.pk,
                         author_user_id |-> Head(che_rest),
                         like_count |-> post.like_count]
       IN IF qualifies(post, min_likes)
          THEN \E fault \in Faulty :
                 /\ posts' = store_post(posts, post_data, fault)
                 /\ high_engagement_posts' =
                        Append(high_engagement_posts, post.pk)
                 /\ faults' = faults + Count(fault)
          ELSE UNCHANGED <<posts, high_engagement_posts, faults>>
    /\ che_posts' = Tail(che_posts)
    /\ UNCHANGED <<pc, op, users, user_network, target_user_likes, crawl_vars,
                   network_users, min_likes, che_rest, ctl_vars, api_log,
                   edge_writes, store_log, rate_waits>>
    /\ UNCHANGED <<an_vars, util_vars>>

\* `self.ig_client.rate_limit_wait()` after the posts of one user.
che_rate_limit_wait ==
    /\ pc = "che_for_post"
    /\ che_posts = <<>>
    /\ rate_waits' = rate_waits + 1
    /\ che_rest' = Tail(che_rest)
    /\ pc' = "che_for_user"
    /\ UNCHANGED <<op, faults, db, crawl_vars, network_users, min_likes,
                   che_posts, high_engagement_posts, ctl_vars, api_log,
                   edge_writes, store_log>>
    /\ UNCHANGED <<an_vars, util_vars>>

\* ---------------------------------------------- check_target_user_likes
\* The depth recorded for the author of a post: the network_depth of the Edge
\* stored for the author, 1 when the post or the Edge is not in the store.
get_network_depth(post_id) ==
    LET authors == {posts[i].author_user_id :
                      i \in {j \in DOMAIN posts : posts[j].post_id = post_id}}
        edges == {i \in DOMAIN user_network :
                    user_network[i].target_user_id \in authors}
    IN IF edges = {} THEN 1
       ELSE user_network[CHOOSE i \in edges : \A j \in edges : i <= j].network_depth

\* `any(str(liker.pk) == target_user_id for liker in likers)`
target_liked(likers) == Root \in likers

\* Entry of check_target_user_likes(target_user_id, post_list).
check_target_user_likes ==
    /\ pc = "idle"
    /\ op' = "check"
    /\ post_list' \in SeqsUpTo(PostIds, MaxPostList)
    /\ ctl_rest' = post_list'
    /\ found_likes' = <<>>
    /\ pc' = "ctl_for"
    /\ UNCHANGED <<faults, db, crawl_vars, network_users, che_vars, api_log,
                   edge_writes, store_log, rate_waits>>
    /\ UNCHANGED <<an_vars, util_vars>>

\* The list is exhausted: log and return found_likes.
ctl_return ==
    /\ pc = "ctl_for"
    /\ ctl_rest = <<>>
    /\ pc' = "done"
    /\ UNCHANGED <<op, faults, db, crawl_vars, network_users, che_vars,
                   ctl_vars, api_log, edge_writes, store_log, rate_waits>>
    /\ UNCHANGED <<an_vars, util_vars>>

\* The try body up to the pause: get_media_likers, the membership test and,
\* on a match, store_user_like and the append.  An exception is logged and
\* `continue` moves to the next post.
ctl_check ==
    /\ pc = "ctl_for"
    /\ ctl_rest # <<>>
    /\ \E fails \in Faulty, fault \in Faulty, likers \in SUBSET {Root, "a"} :
         LET post_id == Head(ctl_rest)
             r == get_media_likers(likers, fails)
             like_data == [target_user_id |-> Root,
                           post_id |-> post_id,
                           network_depth |-> get_network_depth(post_id)]
         IN /\ faults + Count(fails) + Count(fault) <= MaxFaults
            /\ api_log' = Append(api_log, [fn |-> "media_likers",
                                           arg |-> post_id,
                                           ok |-> ~fails,
                                           ret |-> IF r.raised THEN {}
                                                   ELSE r.value,
                                           waits |-> rate_waits])
            /\ IF r.raised
               THEN /\ ctl_rest' = Tail(ctl_rest)
                    /\ faults' = faults + Count(fails)
                    /\ UNCHANGED <<pc, target_user_likes, found_likes>>
               ELSE /\ pc' = "ctl_wait"
                    /\ UNCHANGED ctl_rest
                    /\ IF target_liked(r.value)
                       THEN /\ target_user_likes' =
                                   store_user_like(target_user_likes,
                                                   like_data, fault)
                            /\ found_likes' = Append(found_likes, like_data)
                            /\ faults' = faults + Count(fails) + Count(fault)
                       ELSE /\ ~fault
                            /\ faults' = faults + Count(fails)
                            /\ UNCHANGED <<target_user_likes, found_likes>>
    /\ UNCHANGED <<op, users, user_network, posts, crawl_vars, network_users,
                   che_vars, post_list, edge_writes, store_log, rate_waits>>
    /\ UNCHANGED <<an_vars, util_vars>>

\* The step to the next post without the pause.
ctl_next_without_wait ==
    /\ pc = "ctl_wait"
    /\ ctl_rest' = Tail(ctl_rest)
    /\ pc' = "ctl_for"
    /\ UNCHANGED <<op, faults, db, crawl_vars, network_users, che_vars,
                   post_list, found_likes, api_log, edge_writes, store_log,
                   rate_waits>>
    /\ UNCHANGED <<an_vars, util_vars>>

\* `self.ig_client.rate_limit_wait()` after the check of one post.
ctl_rate_limit_wait ==
    /\ pc = "ctl_wait"
    /\ rate_waits' = rate_waits + 1
    /\ ctl_rest' = Tail(ctl_rest)
    /\ pc' = "ctl_for"
    /\ UNCHANGED <<op, faults, db, crawl_vars, network_users, che_vars,
                   post_list, found_likes, api_log, edge_writes, store_log>>
    /\ UNCHANGED <<an_vars, util_vars>>

\* ------------------------------------------------------ direct store calls
\* A caller outside the collection loops invokes store_user,
\* store_network_relationship or store_user_like, possibly again with the
\* input of an earlier call.
direct_call_allowed ==
    /\ pc \in {"idle", "direct"}
    /\ Len(store_log) < MaxStoreCalls

direct_store_user ==
    /\ direct_call_allowed
    /\ \E u \in Authors, n \in {1, 2}, fault \in Faulty :
         LET user_data == [user_id |-> u, username |-> u, follower_count |-> n]
         IN /\ users' = store_user(users, user_data, fault)
            /\ store_log' = Append(store_log, [fn |-> "store_user",
                                               row |-> user_data,
                                               fault |-> fault])
            /\ faults' = faults + Count(fault)
    /\ pc' = "direct"
    /\ op' = "store"
    /\ UNCHANGED <<user_network, posts, target_user_likes, crawl_vars,
                   network_users, che_vars, ctl_vars, api_log, edge_writes,
                   rate_waits>>
    /\ UNCHANGED <<an_vars, util_vars>>

direct_store_network_relationship ==
    /\ direct_call_allowed
    /\ \E target \in Authors, depth \in {1, 2}, fault \in Faulty :
         LET args == [source |-> Root, target |-> target, depth |-> depth,
                      fault |-> fault]
         IN /\ user_network' = store_network_relationship(
                                   user_network, Root, target, depth, fault)
            /\ edge_writes' = Append(edge_writes, args)
            /\ store_log' = Append(store_log,
                                   [fn |-> "store_network_relationship",
                                    row |-> args, fault |-> fault])
            /\ faults' = faults + Count(fault)
    /\ pc' = "direct"
    /\ op' = "store"
    /\ UNCHANGED <<users, posts, target_user_likes, crawl_vars, network_users,
                   che_vars, ctl_vars, api_log, rate_waits>>
    /\ UNCHANGED <<an_vars, util_vars>>

direct_store_user_like ==
    /\ direct_call_allowed
    /\ \E post_id \in PostIds, depth \in {1, 2}, fault \in Faulty :
         LET like_data == [target_user_id |-> Root, post_id |-> post_id,
                           network_depth |-> depth]
         IN /\ target_user_likes' =
                   store_user_like(target_user_likes, like_data, fault)
            /\ store_log' = Append(store_log, [fn |-> "store_user_like",
                                               row |-> like_data,
                                               fault |-> fault])
            /\ faults' = faults + Count(fault)
    /\ pc' = "direct"
    /\ op' = "store"
    /\ UNCHANGED <<users, user_network, posts, crawl_vars, network_users,
                   che_vars, ctl_vars, api_log, edge_writes, rate_waits>>
    /\ UNCHANGED <<an_vars, util_vars>>

\* ------------------------------------------------------------ the system
\* The database as an earlier run left it: account "a" is stored, with the
\* follower count it had then.
Init ==
    /\ pc = "idle"
    /\ op = "none"
    /\ faults = 0
    /\ users = <<[user_id |-> "a", username |-> "a", follower_count |-> 0]>>
    /\ user_network = <<>>
    /\ posts = <<>>
    /\ target_user_likes = <<>>
    /\ follow = [u \in Users |-> <<>>]
    /\ max_depth = 0
    /\ max_users_per_level = 1
    /\ queue = <<>>
    /\ visited = {}
    /\ network_users = <<>>
    /\ cur = [user |-> Root, depth |-> 0]
    /\ following = <<>>
    /\ min_likes = DEFAULT_MIN_LIKES
    /\ che_rest = <<>>
    /\ che_posts = <<>>
    /\ high_engagement_posts = <<>>
    /\ post_list = <<>>
    /\ ctl_rest = <<>>
    /\ found_likes = <<>>
    /\ api_log = <<>>
    /\ expand_log = <<>>
    /\ edge_writes = <<>>
    /\ store_log = <<>>
    /\ rate_waits = 0
    /\ hashtag_analysis = <<>>
    /\ an_call = [fn |-> "none"]
    /\ an_result = [raised |-> "none"]
    /\ an_calls = 0
    /\ utilities_unused

Next ==
    \/ build_social_network
    \/ bsn_return
    \/ bsn_skip
    \/ bsn_expand
    \/ bsn_for
    \/ bsn_rate_limit_wait
    \/ collect_high_engagement_posts
    \/ che_return
    \/ che_fetch
    \/ che_post
    \/ che_rate_limit_wait
    \/ check_target_user_likes
    \/ ctl_return
    \/ ctl_check
    \/ ctl_rate_limit_wait
    \/ direct_store_user
    \/ direct_store_network_relationship
    \/ direct_store_user_like

Spec == Init /\ [][Next]_vars

\* The collector is one sequential thread that keeps executing: a step that
\* is possible is eventually taken.
FairSpec == Init /\ [][Next]_vars /\ WF_vars(Next)

\* ------------------------------------------------------------ follow graphs
\* Accounts the platform lists as followed by u.
Succ(u) == Range(follow[u])

\* Accounts the crawl was given as followed by u: the list its fetch of u
\* returned, cut to max_users_per_level (empty for a failed fetch).
ObsSucc(u) ==
    UNION {Range(api_log[i].ret) :
             i \in {j \in DOMAIN api_log :
                      api_log[j].fn = "user_following" /\ api_log[j].arg = u}}

\* Accounts reachable from Root by a walk of exactly k edges.
WalkEnds(succ(_), k) ==
    LET W[n \in 0 .. k] ==
          IF n = 0 THEN {Root} ELSE UNION {succ(u) : u \in W[n - 1]}
    IN W[k]

\* Accounts within BFS distance k of Root.
Within(succ(_), k) == UNION {WalkEnds(succ, n) : n \in 0 .. k}

\* BFS distance of u from Root, -1 when u is unreachable.
Dist(succ(_), u) ==
    LET far == Cardinality(Users)
    IN IF u \notin Within(succ, far) THEN -1
       ELSE CHOOSE k \in 0 .. far :
              /\ u \in WalkEnds(succ, k)
              /\ \A n \in 0 .. k - 1 : u \notin WalkEnds(succ, n)

CrawlRunning == pc \in {"bsn_while", "bsn_for"}

\* The arguments of the external calls made so far, in call order.
ApiArgs == [i \in DOMAIN api_log |-> api_log[i].arg]

\* ------------------------------------------------------------ C1
\* C1: within one crawl run no user is recorded with two depths: all Edge
\* records the run writes for the same target user carry the same depth.
C1_OneDepthPerUser ==
    op = "crawl" =>
        \A i, j \in DOMAIN edge_writes :
            edge_writes[i].target = edge_writes[j].target
                => edge_writes[i].depth = edge_writes[j].depth

\* ------------------------------------------------------------ C2
\* C2: the list built by the crawl never has more than max_total_users
\* (SafetyLimit) entries.
C2_ListWithinCap == op = "crawl" => Len(network_users) <= SafetyLimit

\* ------------------------------------------------------------ C3
\* C3: in one crawl run the follow list of every user id is fetched at most
\* once, and every fetch belongs to exactly one expansion (no retry).
C3_ExpandedAtMostOnce ==
    op = "crawl" =>
        /\ \A i, j \in DOMAIN api_log : api_log[i].arg = api_log[j].arg => i = j
        /\ Len(api_log) = Len(expand_log)
        /\ \A i \in DOMAIN api_log : api_log[i].arg = expand_log[i].user
        /\ visited = {api_log[i].arg : i \in DOMAIN api_log}

\* A user that was already expanded has been popped again and skipped.
C3_Witness ==
    /\ pc = "bsn_while"
    /\ api_log # <<>>
    /\ cur.user \in visited
    /\ cur.depth < max_depth
    /\ cur.user # api_log[Len(api_log)].arg

\* ------------------------------------------------------------ C4
\* The part of C4 that does not depend on which graph distances are taken in:
\* an Edge of depth d has 1 <= d <= max_depth, its source was expanded from
\* the frontier at depth d - 1, and its target ends a walk of exactly d
\* "following" edges from the root.
C4_EdgeShape(e) ==
    /\ 1 <= e.depth
    /\ e.depth <= max_depth
    /\ [user |-> e.source, depth |-> e.depth - 1] \in Range(expand_log)
    /\ e.target \in WalkEnds(Succ, e.depth)

\* C4 as stated: every Edge written by the crawl has that shape and d - 1 is
\* the BFS distance of the source from the root in the platform's follow graph.
C4_DepthIsGraphDistance ==
    op = "crawl" =>
        \A i \in DOMAIN edge_writes :
            /\ C4_EdgeShape(edge_writes[i])
            /\ Dist(Succ, edge_writes[i].source) = edge_writes[i].depth - 1

\* C4 amended: every Edge written by the crawl has that shape and d - 1 is the
\* BFS distance of the source in the graph of the follow lists the crawl
\* fetched (each cut to max_users_per_level, a failed fetch counting as empty).
C4_DepthIsFetchedDistance ==
    op = "crawl" =>
        \A i \in DOMAIN edge_writes :
            /\ C4_EdgeShape(edge_writes[i])
            /\ edge_writes[i].target \in WalkEnds(ObsSucc, edge_writes[i].depth)
            /\ Dist(ObsSucc, edge_writes[i].source) = edge_writes[i].depth - 1

\* An Edge has been written whose source is nearer to the root in the
\* platform's graph than in the fetched one.
C4_Witness ==
    /\ op = "crawl"
    /\ \E i \in DOMAIN edge_writes :
        /\ edge_writes[i].depth >= 2
        /\ Dist(Succ, edge_writes[i].source) < Dist(ObsSucc, edge_writes[i].source)

\* ------------------------------------------------------------ C5
\* The rows of user_network that carry the key of an Edge write.
EdgeRows(e) ==
    {k \in DOMAIN user_network :
        /\ user_network[k].source_user_id = e.source
        /\ user_network[k].target_user_id = e.target
        /\ user_network[k].relationship_type = "following"}

\* C5: storing an Edge is insert-if-absent on (source, target, kind): once a
\* store of a key has gone through without a fault, the store holds exactly
\* one Edge with that key, and its depth is that of the first such store
\* whatever depth later stores carry.
C5_InsertIfAbsent ==
    \A i \in DOMAIN edge_writes :
        (/\ ~edge_writes[i].fault
         /\ \A j \in 1 .. i - 1 :
               (/\ edge_writes[j].source = edge_writes[i].source
                /\ edge_writes[j].target = edge_writes[i].target)
                   => edge_writes[j].fault)
        => /\ Cardinality(EdgeRows(edge_writes[i])) = 1
           /\ \A k \in EdgeRows(edge_writes[i]) :
                 user_network[k].network_depth = edge_writes[i].depth

\* ------------------------------------------------------------ C6
\* No two rows of a table share the key the store_* statement conflicts on.
KeysDistinct(rows, cols) ==
    \A i, j \in DOMAIN rows : Proj(rows[i], cols) = Proj(rows[j], cols) => i = j

C6_OneRowPerKey ==
    /\ KeysDistinct(users, {"user_id"})
    /\ KeysDistinct(user_network,
                    {"source_user_id", "target_user_id", "relationship_type"})
    /\ KeysDistinct(target_user_likes, {"target_user_id", "post_id"})

\* A direct store_* call whose input equals that of an earlier call that went
\* through without a fault leaves the number of rows of every table unchanged.
C6_RepeatKeepsRowCount ==
    (/\ Len(store_log') = Len(store_log) + 1
     /\ \E j \in DOMAIN store_log :
           /\ store_log[j].fn = store_log'[Len(store_log')].fn
           /\ store_log[j].row = store_log'[Len(store_log')].row
           /\ ~store_log[j].fault)
    => /\ Len(users') = Len(users)
       /\ Len(user_network') = Len(user_network)
       /\ Len(target_user_likes') = Len(target_user_likes)

\* C6: re-running store_user, store_network_relationship or store_user_like
\* with identical input creates no duplicate rows: the store always holds at
\* most one User per user id, one Edge per (source, target, kind) and one Like
\* per (target user, post), and a repeated call leaves the row counts unchanged.
C6_Idempotent == []C6_OneRowPerKey /\ [][C6_RepeatKeepsRowCount]_vars

\* store_user has run twice with the same input for an account that was not
\* stored before, and the account is stored.
C6_Witness ==
    /\ \E i, j \in DOMAIN store_log :
          /\ i < j
          /\ store_log[i] = store_log[j]
          /\ store_log[i].fn = "store_user"
          /\ ~store_log[i].fault
          /\ store_log[i].row.user_id = "b"
    /\ "b" \in UserIds(users)

\* ------------------------------------------------------------ C7
\* C7: for every follow relation (cycles and self-follows included) and every
\* max_depth and max_users_per_level a started crawl terminates and returns.
C7_CrawlTerminates == CrawlRunning ~> (pc = "done")

\* A crawl over a graph with a cycle through the root has returned.
C7_Witness ==
    /\ pc = "done"
    /\ op = "crawl"
    /\ \E u \in Users : Root \in Succ(u) /\ u \in visited
    /\ Len(edge_writes) >= 2

\* ------------------------------------------------------------ C8
\* C8: a failed platform call never aborts the run.  A failed call answers an
\* empty collection; a finished crawl has expanded every account the fetched
\* lists put within max_depth - 1 of the root unless the size cap stopped it;
\* a finished collection has fetched every user of the input within the cap,
\* and a finished liker check every post of its input, in order.
C8_FailureSkipsOnlyItem ==
    /\ pc # "aborted"
    /\ \A i \in DOMAIN api_log :
          ~api_log[i].ok =>
              IF api_log[i].fn = "media_likers"
              THEN api_log[i].ret = {}
              ELSE Len(api_log[i].ret) = 0
    /\ (pc = "done" /\ op = "crawl") =>
          \/ Len(network_users) >= SafetyLimit
          \/ max_depth >= 1 /\ Within(ObsSucc, max_depth - 1) \subseteq visited
          \/ max_depth = 0 /\ visited = {}
    /\ (pc = "done" /\ op = "collect") =>
          ApiArgs = SubSeq(network_users, 1,
                           IF Len(network_users) < UserCap
                           THEN Len(network_users) ELSE UserCap)
    /\ (pc = "done" /\ op = "check") => ApiArgs = post_list

\* An operation has returned after a failed platform call that was followed
\* by a later call.
C8_Witness ==
    /\ pc = "done"
    /\ \E i, j \in DOMAIN api_log : i < j /\ ~api_log[i].ok /\ api_log[j].ok

\* ------------------------------------------------------------ C9
\* The depth C9 expects for a Like of a post: the depth of the Edge recorded
\* for the post's author, 1 when the author has no Edge.
ExpectedLikeDepth(post_id, depth) ==
    LET edges == {k \in DOMAIN user_network :
                    user_network[k].target_user_id = post_id[1]}
    IN IF edges = {} THEN depth = 1
       ELSE \E k \in edges : user_network[k].network_depth = depth

\* C9: after check_target_user_likes, every checked post whose fetched likers
\* include the target user has a Like record, returned and stored, whose depth
\* is the depth of the Edge of the post's author (1 without an Edge); a post
\* whose likers never included the target has no Like.
C9_LikeStoredWithEdgeDepth ==
    (pc = "done" /\ op = "check") =>
        \A i \in DOMAIN api_log :
            LET post_id == api_log[i].arg
                matched == \E j \in DOMAIN api_log :
                              api_log[j].arg = post_id /\ Root \in api_log[j].ret
            IN IF matched
               THEN /\ \E k \in DOMAIN found_likes :
                          /\ found_likes[k].post_id = post_id
                          /\ ExpectedLikeDepth(post_id, found_likes[k].network_depth)
                    /\ \E k \in DOMAIN target_user_likes :
                          /\ target_user_likes[k].post_id = post_id
                          /\ target_user_likes[k].target_user_id = Root
                          /\ ExpectedLikeDepth(post_id,
                                 target_user_likes[k].network_depth)
               ELSE /\ \A k \in DOMAIN found_likes :
                          found_likes[k].post_id # post_id
                    /\ \A k \in DOMAIN target_user_likes :
                          target_user_likes[k].post_id # post_id

\* ------------------------------------------------------------ C10
\* The posts the platform returned, over all fetches, in fetch order.
FetchedPosts ==
    LET F[i \in 0 .. Len(api_log)] ==
          IF i = 0 THEN <<>> ELSE F[i - 1] \o api_log[i].ret
    IN F[Len(api_log)]

\* C10: collect_high_engagement_posts returns exactly the ids of the fetched
\* posts with like_count >= min_likes, in fetch order, fetched only for the
\* users within the cap; no post below the threshold is stored or returned.
C10_ReturnsQualifyingPosts ==
    (pc = "done" /\ op = "collect") =>
        LET AtLeast(p) == p.like_count >= min_likes
            good == SelectSeq(FetchedPosts, AtLeast)
        IN /\ high_engagement_posts = [i \in DOMAIN good |-> good[i].pk]
           /\ Len(api_log) <= UserCap
           /\ \A i \in DOMAIN api_log : api_log[i].arg = network_users[i]
           /\ \A k \in DOMAIN posts :
                 /\ posts[k].like_count >= min_likes
                 /\ posts[k].post_id \in Range(high_engagement_posts)

\* A collection over more users than the cap has returned, having fetched a
\* post exactly at the threshold and one just below it, and stored a post.
C10_Witness ==
    /\ pc = "done"
    /\ op = "collect"
    /\ Len(network_users) > UserCap
    /\ \E i \in DOMAIN FetchedPosts : FetchedPosts[i].like_count = min_likes
    /\ \E i \in DOMAIN FetchedPosts : FetchedPosts[i].like_count = min_likes - 1
    /\ posts # <<>>

\* =========================================================== analysis
\* The analysis side: data/processors.py (DataProcessor),
\* analysis/preference_analysis.py (PreferenceAnalyzer) and
\* analysis/simplified_preference_analysis.py (SimplifiedPreferenceAnalyzer),
\* reading the tables through the ORM session.


\* ------------------------------------------------------------ analysis bounds
\* Most TargetUserLike rows in the store when an analysis starts.
MaxLikes == 2
\* Most runs of the hashtag analysis on one store.
MaxRuns == 2
\* Most hashtags of a post handed to the categorizer.
MaxTags == 2

\* Program constants of the analysis.
TIER_1K == 1000
TIER_10K == 10000
TIER_100K == 100000
PEAK_HOURS_KEPT == 5
HASHTAGS_STORED == 50
HASHTAGS_RETURNED == 20
HASHTAGS_RECOMMENDED == 5

\* ------------------------------------------------------------ text
\* Text is a sequence of one-character strings; Spell gives the characters of
\* a hashtag or keyword.
Spell(word) ==
    CASE word = "fashion" -> <<"f", "a", "s", "h", "i", "o", "n">>
      [] word = "style" -> <<"s", "t", "y", "l", "e">>
      [] word = "outfit" -> <<"o", "u", "t", "f", "i", "t">>
      [] word = "ootd" -> <<"o", "o", "t", "d">>
      [] word = "clothing" -> <<"c", "l", "o", "t", "h", "i", "n", "g">>
      [] word = "brand" -> <<"b", "r", "a", "n", "d">>
      [] word = "food" -> <<"f", "o", "o", "d">>
      [] word = "foodie" -> <<"f", "o", "o", "d", "i", "e">>
      [] word = "restaurant" -> <<"r", "e", "s", "t", "a", "u", "r", "a", "n", "t">>
      [] word = "cooking" -> <<"c", "o", "o", "k", "i", "n", "g">>
      [] word = "recipe" -> <<"r", "e", "c", "i", "p", "e">>
      [] word = "delicious" -> <<"d", "e", "l", "i", "c", "i", "o", "u", "s">>
      [] word = "travel" -> <<"t", "r", "a", "v", "e", "l">>
      [] word = "vacation" -> <<"v", "a", "c", "a", "t", "i", "o", "n">>
      [] word = "trip" -> <<"t", "r", "i", "p">>
      [] word = "explore" -> <<"e", "x", "p", "l", "o", "r", "e">>
      [] word = "adventure" -> <<"a", "d", "v", "e", "n", "t", "u", "r", "e">>
      [] word = "wanderlust" -> <<"w", "a", "n", "d", "e", "r", "l", "u", "s", "t">>
      [] word = "fitness" -> <<"f", "i", "t", "n", "e", "s", "s">>
      [] word = "gym" -> <<"g", "y", "m">>
      [] word = "workout" -> <<"w", "o", "r", "k", "o", "u", "t">>
      [] word = "health" -> <<"h", "e", "a", "l", "t", "h">>
      [] word = "exercise" -> <<"e", "x", "e", "r", "c", "i", "s", "e">>
      [] word = "training" -> <<"t", "r", "a", "i", "n", "i", "n", "g">>
      [] word = "tech" -> <<"t", "e", "c", "h">>
      [] word = "technology" -> <<"t", "e", "c", "h", "n", "o", "l", "o", "g", "y">>
      [] word = "coding" -> <<"c", "o", "d", "i", "n", "g">>
      [] word = "software" -> <<"s", "o", "f", "t", "w", "a", "r", "e">>
      [] word = "ai" -> <<"a", "i">>
      [] word = "programming" -> <<"p", "r", "o", "g", "r", "a", "m", "m", "i", "n", "g">>
      [] word = "lifestyle" -> <<"l", "i", "f", "e", "s", "t", "y", "l", "e">>
      [] word = "life" -> <<"l", "i", "f", "e">>
      [] word = "motivation" -> <<"m", "o", "t", "i", "v", "a", "t", "i", "o", "n">>
      [] word = "inspiration" -> <<"i", "n", "s", "p", "i", "r", "a", "t", "i", "o", "n">>
      [] word = "goals" -> <<"g", "o", "a", "l", "s">>
      [] word = "business" -> <<"b", "u", "s", "i", "n", "e", "s", "s">>
      [] word = "entrepreneur" -> <<"e", "n", "t", "r", "e", "p", "r", "e", "n", "e", "u", "r">>
      [] word = "startup" -> <<"s", "t", "a", "r", "t", "u", "p">>
      [] word = "marketing" -> <<"m", "a", "r", "k", "e", "t", "i", "n", "g">>
      [] word = "success" -> <<"s", "u", "c", "c", "e", "s", "s">>
      [] word = "art" -> <<"a", "r", "t">>
      [] word = "artist" -> <<"a", "r", "t", "i", "s", "t">>
      [] word = "creative" -> <<"c", "r", "e", "a", "t", "i", "v", "e">>
      [] word = "design" -> <<"d", "e", "s", "i", "g", "n">>
      [] word = "photography" -> <<"p", "h", "o", "t", "o", "g", "r", "a", "p", "h", "y">>
      [] word = "aesthetic" -> <<"a", "e", "s", "t", "h", "e", "t", "i", "c">>
      [] word = "music" -> <<"m", "u", "s", "i", "c">>
      [] word = "song" -> <<"s", "o", "n", "g">>
      [] word = "concert" -> <<"c", "o", "n", "c", "e", "r", "t">>
      [] word = "album" -> <<"a", "l", "b", "u", "m">>
      [] word = "musician" -> <<"m", "u", "s", "i", "c", "i", "a", "n">>
      [] word = "sports" -> <<"s", "p", "o", "r", "t", "s">>
      [] word = "football" -> <<"f", "o", "o", "t", "b", "a", "l", "l">>
      [] word = "basketball" -> <<"b", "a", "s", "k", "e", "t", "b", "a", "l", "l">>
      [] word = "soccer" -> <<"s", "o", "c", "c", "e", "r">>
      [] word = "game" -> <<"g", "a", "m", "e">>
      [] word = "team" -> <<"t", "e", "a", "m">>
      [] word = "party" -> <<"p", "a", "r", "t", "y">>
      [] word = "xyz" -> <<"x", "y", "z">>
      [] word = "FOOD" -> <<"F", "O", "O", "D">>

UpperCase == <<"A", "B", "C", "D", "E", "F", "G", "H", "I", "J", "K", "L", "M",
               "N", "O", "P", "Q", "R", "S", "T", "U", "V", "W", "X", "Y", "Z">>
LowerCase == <<"a", "b", "c", "d", "e", "f", "g", "h", "i", "j", "k", "l", "m",
               "n", "o", "p", "q", "r", "s", "t", "u", "v", "w", "x", "y", "z">>

\* A text in which letters keep their case.
case_kept(text) == text

\* str.lower()
lower(text) ==
    [i \in DOMAIN text |->
        IF \E k \in DOMAIN UpperCase : UpperCase[k] = text[i]
        THEN LowerCase[CHOOSE k \in DOMAIN UpperCase : UpperCase[k] = text[i]]
        ELSE text[i]]

\* ' '.join(hashtags)
join(hashtags) ==
    LET J[i \in 0 .. Len(hashtags)] ==
          IF i = 0 THEN <<>>
          ELSE IF i = 1 THEN Spell(hashtags[1])
               ELSE J[i - 1] \o <<" ">> \o Spell(hashtags[i])
    IN J[Len(hashtags)]

\* `keyword in hashtag_text`: substring test.
Contains(text, keyword) ==
    \E i \in 1 .. Len(text) - Len(keyword) + 1 :
        SubSeq(text, i, i + Len(keyword) - 1) = keyword

\* ------------------------------------------------------------ categorize
\* Hashtags the stored posts carry.
Tags == {"food", "style", "fitness", "art", "party", "xyz", "FOOD"}

Analyzers == {"PreferenceAnalyzer", "SimplifiedPreferenceAnalyzer"}

\* The keyword list of each category (the same in both implementations).
Keywords(category) ==
    CASE category = "fashion" -> <<"fashion", "style", "outfit", "ootd", "clothing", "brand">>
      [] category = "food" -> <<"food", "foodie", "restaurant", "cooking", "recipe", "delicious">>
      [] category = "travel" -> <<"travel", "vacation", "trip", "explore", "adventure", "wanderlust">>
      [] category = "fitness" -> <<"fitness", "gym", "workout", "health", "exercise", "training">>
      [] category = "technology" -> <<"tech", "technology", "coding", "software", "ai", "programming">>
      [] category = "lifestyle" -> <<"lifestyle", "life", "motivation", "inspiration", "goals">>
      [] category = "business" -> <<"business", "entrepreneur", "startup", "marketing", "success">>
      [] category = "art" -> <<"art", "artist", "creative", "design", "photography", "aesthetic">>
      [] category = "music" -> <<"music", "song", "artist", "concert", "album", "musician">>
      [] category = "sports" -> <<"sports", "football", "basketball", "soccer", "game", "team">>

\* The categories in the order the dict literal lists them: DataProcessor
\* (used by PreferenceAnalyzer) starts with fashion, the simplified analyzer
\* ends with it.
categories(analyzer) ==
    IF analyzer = "PreferenceAnalyzer"
    THEN <<"fashion", "food", "travel", "fitness", "technology", "lifestyle",
           "business", "art", "music", "sports">>
    ELSE <<"food", "travel", "fitness", "technology", "lifestyle", "business",
           "art", "music", "sports", "fashion">>

\* The element of a one-element set.
Only(S) == CHOOSE x \in S : TRUE

\* `any(keyword in hashtag_text for keyword in keywords)`
category_matches(category, hashtag_text) ==
    \E keyword \in {Spell(Keywords(category)[k]) : k \in DOMAIN Keywords(category)} :
        Contains(hashtag_text, keyword)

\* A test for missing hashtags that never holds.
no_hashtags_never(hashtags) == FALSE

\* `if not post.hashtags: return 'uncategorized'`
no_hashtags(hashtags) == hashtags = <<>>

\* The loop over the categories: the first category, in dict order, one of
\* whose keywords occurs in the text; 'general' when there is none.
first_match(analyzer, hashtag_text) ==
    LET order == categories(analyzer)
        hits == {i \in DOMAIN order : category_matches(order[i], hashtag_text)}
    IN IF hits = {} THEN "general"
       ELSE order[CHOOSE i \in hits : \A j \in hits : i <= j]

\* The body of DataProcessor.categorize_post /
\* SimplifiedPreferenceAnalyzer._categorize_post on the hashtags of a post.
categorize_hashtags(analyzer, hashtags) ==
    IF no_hashtags(hashtags) THEN "uncategorized"
    ELSE Only({first_match(analyzer, hashtag_text) :
                 hashtag_text \in {lower(join(hashtags))}})

\* The function is pure: its values for the hashtag lists of the model,
\* computed once and kept as an explicit table.
CategoryTable ==
    [call \in Analyzers \X SeqsUpTo(Tags, MaxTags) |->
        categorize_hashtags(call[1], call[2])] @@ <<>>

\* DataProcessor.categorize_post / SimplifiedPreferenceAnalyzer._categorize_post
categorize_post(analyzer, hashtags) == CategoryTable[<<analyzer, hashtags>>]

\* ------------------------------------------------------------ Counter
\* A dict or Counter is a sequence of <<key, count>> pairs in insertion order.
dict_keys(d) == [i \in DOMAIN d |-> d[i][1]]

dict_has(d, key) == \E i \in DOMAIN d : d[i][1] = key

\* `counter[key] += 1` / `d[key] = d.get(key, 0) + 1`
counter_add(d, key) ==
    IF dict_has(d, key)
    THEN [i \in DOMAIN d |-> IF d[i][1] = key THEN <<key, d[i][2] + 1>> ELSE d[i]]
    ELSE Append(d, <<key, 1>>)

\* Counter.update(items) on top of d
counter_update(d, items) ==
    LET C[i \in 0 .. Len(items)] ==
          IF i = 0 THEN d
          ELSE Only({counter_add(before, items[i]) : before \in {C[i - 1]}})
    IN C[Len(items)]

\* Counter.most_common(): sorted by count, highest first, equal counts in
\* insertion order (a stable sort).
most_common(d) ==
    LET place(i) == 1 + Cardinality({j \in DOMAIN d :
                          \/ d[j][2] > d[i][2]
                          \/ d[j][2] = d[i][2] /\ j < i})
    IN [p \in DOMAIN d |-> d[CHOOSE i \in DOMAIN d : place(i) = p]]

\* The first key of a non-empty dict, whatever its count.
first_key(d) == d[1][1]

\* `max(d.items(), key=lambda x: x[1])[0]` on a non-empty dict: the first key
\* with the highest count.
max_by_count(d) ==
    d[CHOOSE i \in DOMAIN d :
        /\ \A j \in DOMAIN d : d[j][2] <= d[i][2]
        /\ \A j \in 1 .. i - 1 : d[j][2] < d[i][2]][1]

\* sum(d.values())
sum_values(d) ==
    LET S[i \in 0 .. Len(d)] == IF i = 0 THEN 0 ELSE S[i - 1] + d[i][2]
    IN S[Len(d)]

\* Concatenation of a sequence of sequences.
Flatten(ss) ==
    LET F[i \in 0 .. Len(ss)] == IF i = 0 THEN <<>> ELSE F[i - 1] \o ss[i]
    IN F[Len(ss)]

\* ------------------------------------------------------------ queries
\* `query(TargetUserLike).filter(target_user_id == target_user_id).all()`
likes_of(target_user_id) ==
    LET mine(row) == row.target_user_id = target_user_id
    IN SelectSeq(target_user_likes, mine)

\* `query(Post).filter(Post.post_id == like.post_id).first()`: the rows found
\* (at most one, post_id being the primary key).
post_of(like) ==
    LET it(row) == row.post_id = like.post_id
    IN SelectSeq(posts, it)

\* `if post:`
has_post(like) == post_of(like) # <<>>

\* A test for an empty list that never holds.
no_likes_never(likes) == FALSE

\* `if not likes:`
no_likes(likes) == likes = <<>>

\* ------------------------------------------------ _analyze_content_preferences
\* The four engagement tiers in the order of the dict literal.
TierNames == <<"0-1K", "1K-10K", "10K-100K", "100K+">>

tier(like_count) ==
    IF like_count < TIER_1K THEN "0-1K"
    ELSE IF like_count < TIER_10K THEN "1K-10K"
         ELSE IF like_count < TIER_100K THEN "10K-100K"
              ELSE "100K+"

analyze_content_preferences(analyzer, target_user_id) ==
    LET likes == likes_of(target_user_id)
        found == SelectSeq(likes, has_post)
        post(i) == post_of(found[i])[1]
        category_counts ==
            counter_update(<<>>, [i \in DOMAIN found |->
                                    categorize_post(analyzer, post(i).hashtags)])
        post_type_counts ==
            counter_update(<<>>, [i \in DOMAIN found |-> post(i).post_type])
        like_count_ranges ==
            [t \in DOMAIN TierNames |->
                <<TierNames[t],
                  Cardinality({i \in DOMAIN found :
                                 tier(post(i).like_count) = TierNames[t]})>>]
    IN IF no_likes(likes)
       THEN [error |-> "No likes data available"]
       ELSE [category_preferences |->
                IF analyzer = "PreferenceAnalyzer" THEN category_counts
                ELSE most_common(category_counts),
             post_type_preferences |->
                IF analyzer = "PreferenceAnalyzer" THEN post_type_counts
                ELSE most_common(post_type_counts),
             engagement_level_preferences |-> like_count_ranges,
             total_likes_analyzed |-> Len(likes)]

\* ------------------------------------------------ calculate_engagement_patterns
\* A like_timestamp is <<>> (NULL) or <<t>>, t counting hours from a Thursday
\* midnight.
has_timestamp(like) == like.like_timestamp # <<>>

hour_of(like) == like.like_timestamp[1] % 24

DayNames == <<"Thursday", "Friday", "Saturday", "Sunday", "Monday", "Tuesday",
              "Wednesday">>

day_of(like) == DayNames[((like.like_timestamp[1] \div 24) % 7) + 1]

\* `if like.network_depth:` (NULL and 0 are both falsy; 0 stands for both)
has_depth(like) == like.network_depth # 0

\* DataProcessor.calculate_engagement_patterns /
\* SimplifiedPreferenceAnalyzer._analyze_engagement_patterns.  min() and max()
\* of an empty generator raise ValueError.
analyze_engagement_patterns(analyzer, target_user_id) ==
    LET likes == likes_of(target_user_id)
        stamped == SelectSeq(likes, has_timestamp)
        deep == SelectSeq(likes, has_depth)
        hour_counts ==
            counter_update(<<>>, [i \in DOMAIN stamped |-> hour_of(stamped[i])])
        day_counts ==
            counter_update(<<>>, [i \in DOMAIN stamped |-> day_of(stamped[i])])
        depth_counts ==
            counter_update(<<>>, [i \in DOMAIN deep |-> deep[i].network_depth])
        times == {stamped[i].like_timestamp[1] : i \in DOMAIN stamped}
    IN IF no_likes(likes)
       THEN [error |-> "No likes found for analysis"]
       ELSE IF times = {}
            THEN [raised |-> "ValueError"]
            ELSE [peak_hours |->
                     IF analyzer = "PreferenceAnalyzer"
                     THEN Take(most_common(hour_counts), PEAK_HOURS_KEPT)
                     ELSE most_common(hour_counts),
                  active_days |-> most_common(day_counts),
                  network_depth_distribution |->
                     IF analyzer = "PreferenceAnalyzer" THEN depth_counts
                     ELSE most_common(depth_counts),
                  total_likes |-> Len(likes),
                  date_range |->
                     [earliest |-> CHOOSE t \in times : \A u \in times : t <= u,
                      latest |-> CHOOSE t \in times : \A u \in times : u <= t]]

\* ------------------------------------------------ analyze_hashtag_preferences
\* `if post and post.hashtags:`
has_tagged_post(like) == has_post(like) /\ post_of(like)[1].hashtags # <<>>

\* A frequency that grows with every run.
accumulated_frequency(stored, frequency) == stored + frequency

\* The frequency written to an existing HashtagAnalysis row
\* (`existing.frequency = frequency`).
updated_frequency(stored, frequency) == frequency

\* One iteration of the storing loop: update the row of (hashtag, target) if
\* the query finds one, add a row otherwise.
store_hashtag(table, target_user_id, pair) ==
    LET existing == {i \in DOMAIN table :
                        /\ table[i].hashtag = pair[1]
                        /\ table[i].target_user_id = target_user_id}
        first == CHOOSE i \in existing : \A j \in existing : i <= j
    IN IF existing # {}
       THEN [table EXCEPT ![first].frequency =
                              updated_frequency(table[first].frequency, pair[2])]
       ELSE Append(table, [hashtag |-> pair[1],
                           target_user_id |-> target_user_id,
                           frequency |-> pair[2]])

\* DataProcessor.analyze_hashtag_preferences (which stores) /
\* SimplifiedPreferenceAnalyzer._analyze_hashtag_preferences (which does not):
\* the result and the table afterwards.
analyze_hashtag_preferences(analyzer, target_user_id, table) ==
    LET likes == likes_of(target_user_id)
        tagged == SelectSeq(likes, has_tagged_post)
        post(i) == post_of(tagged[i])[1]
        hashtag_counter ==
            counter_update(<<>>, Flatten([i \in DOMAIN tagged |-> post(i).hashtags]))
        category_counter ==
            counter_update(<<>>, [i \in DOMAIN tagged |->
                                    categorize_post(analyzer, post(i).hashtags)])
        to_store == Take(most_common(hashtag_counter), HASHTAGS_STORED)
        T[i \in 0 .. Len(to_store)] ==
            IF i = 0 THEN table
            ELSE Only({store_hashtag(before, target_user_id, to_store[i]) :
                         before \in {T[i - 1]}})
    IN [result |->
           [top_hashtags |-> Take(most_common(hashtag_counter), HASHTAGS_RETURNED),
            category_preferences |-> most_common(category_counter),
            total_likes_analyzed |-> Len(likes)],
        table |-> IF analyzer = "PreferenceAnalyzer"
                  THEN T[Len(to_store)] ELSE table]

\* ------------------------------------------------ _analyze_network_insights
\* The network_depth_preferences part: `like.network_depth or 1` counts every
\* like, the simplified analyzer counts the likes that have a depth.
analyze_network_insights(analyzer, target_user_id) ==
    LET likes == likes_of(target_user_id)
        deep == SelectSeq(likes, has_depth)
    IN [network_depth_preferences |->
           IF analyzer = "PreferenceAnalyzer"
           THEN counter_update(<<>>, [i \in DOMAIN likes |->
                                        IF has_depth(likes[i])
                                        THEN likes[i].network_depth ELSE 1])
           ELSE most_common(counter_update(<<>>,
                    [i \in DOMAIN deep |-> deep[i].network_depth]))]

\* ------------------------------------------------ _generate_recommendations
DigitChars == <<"0", "1", "2", "3", "4", "5", "6", "7", "8", "9">>

\* str(n) for 0 <= n < 100
digits(n) ==
    IF n < 10 THEN <<DigitChars[n + 1]>>
    ELSE <<DigitChars[(n \div 10) + 1], DigitChars[(n % 10) + 1]>>

\* f"{peak_hour}:00" in PreferenceAnalyzer, f"{peak_hour:02d}:00" in the
\* simplified analyzer.
format_hour(analyzer, peak_hour) ==
    (IF analyzer = "PreferenceAnalyzer" \/ peak_hour >= 10
     THEN digits(peak_hour)
     ELSE <<"0">> \o digits(peak_hour)) \o <<":", "0", "0">>

\* Whether an analysis result carries the key.
has_key(result, key) == key \in DOMAIN result

\* `max(d.items(), key=...)[0]` in PreferenceAnalyzer, `list(d.items())[0][0]`
\* in the simplified analyzer, on a non-empty dict.
top_key(analyzer, d) ==
    IF analyzer = "PreferenceAnalyzer" THEN max_by_count(d) ELSE d[1][1]

\* The condition under which a rule reads the dict stored under key:
\* PreferenceAnalyzer tests the key only, the simplified analyzer also tests
\* that the dict is not empty.
rule_applies(analyzer, result, key) ==
    /\ has_key(result, key)
    /\ analyzer = "PreferenceAnalyzer" \/ result[key] # <<>>

\* The four rules on the three analysis results.  An entry is [rule, text]:
\* the rule that emitted it and the part of the message that varies.
generate_recommendations(analyzer, content_prefs, engagement_patterns, hashtag_prefs) ==
    LET category_rule == rule_applies(analyzer, content_prefs, "category_preferences")
        timing_rule == rule_applies(analyzer, engagement_patterns, "peak_hours")
        hashtag_rule == rule_applies(analyzer, hashtag_prefs, "top_hashtags")
        network_likes ==
            IF has_key(engagement_patterns, "network_depth_distribution")
            THEN engagement_patterns.network_depth_distribution ELSE <<>>
        network_rule == network_likes # <<>>
        r1 == IF category_rule
              THEN <<[rule |-> "category",
                      text |-> <<top_key(analyzer,
                                         content_prefs.category_preferences)>>]>>
              ELSE <<>>
        r2 == IF timing_rule
              THEN <<[rule |-> "timing",
                      text |-> format_hour(analyzer,
                                  top_key(analyzer, engagement_patterns.peak_hours))]>>
              ELSE <<>>
        r3 == IF hashtag_rule
              THEN <<[rule |-> "hashtags",
                      text |-> Take(dict_keys(hashtag_prefs.top_hashtags),
                                    HASHTAGS_RECOMMENDED)]>>
              ELSE <<>>
        r4 == IF network_rule
              THEN <<[rule |-> "network",
                      text |-> IF top_key(analyzer, network_likes) = 1
                               THEN <<"direct connections">>
                               ELSE <<"extended network">>]>>
              ELSE <<>>
    IN IF \/ has_key(content_prefs, "raised")
          \/ has_key(engagement_patterns, "raised")
          \/ has_key(hashtag_prefs, "raised")
          \/ category_rule /\ content_prefs.category_preferences = <<>>
          \/ timing_rule /\ engagement_patterns.peak_hours = <<>>
       THEN [raised |-> "ValueError"]
       ELSE [recommendations |-> r1 \o r2 \o r3 \o r4]

\* ------------------------------------------------ generate_comprehensive_report
\* `query(User).filter(User.user_id == target_user_id).first()`
target_user(target_user_id) ==
    LET it(row) == row.user_id = target_user_id
    IN Take(SelectSeq(users, it), 1)

\* A lookup that never misses.
target_found_always(target_user_id) == TRUE

\* `if not target_user:` is false
target_found(target_user_id) == target_user(target_user_id) # <<>>

\* The report and the hashtag_analysis table afterwards.  The sections are
\* computed in the order of the dict literal; _generate_recommendations runs
\* the three analyses again, the hashtag analysis storing a second time.
generate_comprehensive_report(analyzer, target_user_id, table) ==
    LET content == analyze_content_preferences(analyzer, target_user_id)
        engagement == analyze_engagement_patterns(analyzer, target_user_id)
        network == analyze_network_insights(analyzer, target_user_id)
        hashtags == analyze_hashtag_preferences(analyzer, target_user_id, table)
        again == analyze_hashtag_preferences(analyzer, target_user_id,
                                             hashtags.table)
        recs == generate_recommendations(analyzer, content, engagement,
                                         again.result)
    IN IF ~target_found(target_user_id)
       THEN [result |-> [error |-> "Target user not found"], table |-> table]
       ELSE IF has_key(engagement, "raised")
            THEN [result |-> engagement, table |-> table]
            ELSE IF has_key(recs, "raised")
                 THEN [result |-> recs, table |-> again.table]
                 ELSE [result |->
                          [user_info |-> target_user(target_user_id),
                           content_preferences |-> content,
                           engagement_patterns |-> engagement,
                           network_insights |-> network,
                           hashtag_analysis |-> hashtags.result,
                           recommendations |-> recs.recommendations],
                       table |-> again.table]

\* ------------------------------------------------------------ analysis runs
collector_vars == <<op, faults, db, crawl_vars, network_users, che_vars,
                    ctl_vars, api_log, edge_writes, store_log, rate_waits>>

\* Target ids an analysis is asked for: the stored target and an id that no
\* table holds.
AnalysisTargets == {Root, "nobody"}

an_generate_comprehensive_report ==
    /\ pc = "an_idle"
    /\ \E analyzer \in Analyzers, target_user_id \in AnalysisTargets :
          LET r == generate_comprehensive_report(analyzer, target_user_id,
                                                 hashtag_analysis)
          IN /\ an_call' = [fn |-> "generate_comprehensive_report",
                            analyzer |-> analyzer,
                            target_user_id |-> target_user_id]
             /\ an_result' = r.result
             /\ hashtag_analysis' = r.table
    /\ an_calls' = an_calls + 1
    /\ pc' = "an_done"
    /\ UNCHANGED <<collector_vars, util_vars>>

an_analyze_content_preferences ==
    /\ pc = "an_idle"
    /\ \E analyzer \in Analyzers, target_user_id \in AnalysisTargets :
          /\ an_call' = [fn |-> "_analyze_content_preferences",
                         analyzer |-> analyzer,
                         target_user_id |-> target_user_id]
          /\ an_result' = analyze_content_preferences(analyzer, target_user_id)
    /\ an_calls' = an_calls + 1
    /\ pc' = "an_done"
    /\ UNCHANGED <<collector_vars, hashtag_analysis, util_vars>>

an_analyze_engagement_patterns ==
    /\ pc = "an_idle"
    /\ \E analyzer \in Analyzers, target_user_id \in AnalysisTargets :
          /\ an_call' = [fn |-> "_analyze_engagement_patterns",
                         analyzer |-> analyzer,
                         target_user_id |-> target_user_id]
          /\ an_result' = analyze_engagement_patterns(analyzer, target_user_id)
    /\ an_calls' = an_calls + 1
    /\ pc' = "an_done"
    /\ UNCHANGED <<collector_vars, hashtag_analysis, util_vars>>

\* The hashtag analysis can be run again on the same store, by the same
\* analyzer for the same target.
an_analyze_hashtag_preferences ==
    /\ pc \in {"an_idle", "an_hashtags"}
    /\ an_calls < MaxRuns
    /\ \E analyzer \in Analyzers, target_user_id \in AnalysisTargets :
          /\ pc = "an_hashtags" =>
                /\ analyzer = an_call.analyzer
                /\ target_user_id = an_call.target_user_id
          /\ LET r == analyze_hashtag_preferences(analyzer, target_user_id,
                                                  hashtag_analysis)
             IN /\ an_call' = [fn |-> "_analyze_hashtag_preferences",
                               analyzer |-> analyzer,
                               target_user_id |-> target_user_id]
                /\ an_result' = r.result
                /\ hashtag_analysis' = r.table
    /\ an_calls' = an_calls + 1
    /\ pc' = "an_hashtags"
    /\ UNCHANGED <<collector_vars, util_vars>>

\* Analysis results handed to _generate_recommendations when the three
\* analyses are replaced by fixed values, as tests/test_analysis.py does.
CategoryDicts ==
    {<<>>, <<<<"food", 10>>, <<"travel", 5>>, <<"fashion", 3>>>>,
     <<<<"travel", 5>>, <<"food", 10>>>>, <<<<"art", 3>>, <<"food", 3>>>>}

HourDicts ==
    {<<>>, <<<<14, 15>>, <<18, 12>>, <<20, 8>>>>, <<<<9, 2>>, <<14, 2>>>>,
     <<<<18, 1>>, <<9, 4>>>>}

DepthDicts == {<<>>, <<<<1, 2>>>>, <<<<2, 3>>, <<1, 1>>>>}

HashtagDicts == {<<>>, <<<<"food", 8>>, <<"yummy", 6>>, <<"restaurant", 4>>>>}

ContentResults ==
    {[error |-> "No likes data available"]}
        \cup {[category_preferences |-> d] : d \in CategoryDicts}

EngagementResults ==
    {[error |-> "No likes found for analysis"]}
        \cup {[peak_hours |-> h] : h \in HourDicts}
        \cup {[peak_hours |-> h, network_depth_distribution |-> n] :
                h \in HourDicts, n \in DepthDicts}

HashtagResults == {[top_hashtags |-> d] : d \in HashtagDicts}

an_generate_recommendations ==
    /\ pc = "an_pure"
    /\ \E analyzer \in Analyzers, content_prefs \in ContentResults,
          engagement_patterns \in EngagementResults,
          hashtag_prefs \in HashtagResults :
          /\ an_call' = [fn |-> "_generate_recommendations",
                         analyzer |-> analyzer,
                         content_prefs |-> content_prefs,
                         engagement_patterns |-> engagement_patterns,
                         hashtag_prefs |-> hashtag_prefs]
          /\ an_result' = generate_recommendations(analyzer, content_prefs,
                              engagement_patterns, hashtag_prefs)
    /\ an_calls' = an_calls + 1
    /\ pc' = "an_done"
    /\ UNCHANGED <<collector_vars, hashtag_analysis, util_vars>>

an_categorize_post ==
    /\ pc = "an_pure"
    /\ \E analyzer \in Analyzers, hashtags \in SeqsUpTo(Tags, MaxTags) :
          /\ an_call' = [fn |-> "categorize_post", analyzer |-> analyzer,
                         hashtags |-> hashtags]
          /\ an_result' = [category |-> categorize_post(analyzer, hashtags)]
    /\ an_calls' = an_calls + 1
    /\ pc' = "an_done"
    /\ UNCHANGED <<collector_vars, hashtag_analysis, util_vars>>

\* ------------------------------------------- extract_hashtags / extract_mentions
\* Longest caption handed to the extractors, in characters.
MaxText == 4

\* Characters of a caption: the two markers, letters in both cases, a space.
TextChars == {"#", "@", "a", "A", "b", " "}

\* The caption of a post without caption: None, which is no text.
None == <<"None">>

\* Captions: a text, or None.
Texts == SeqsUpTo(TextChars, MaxText) \cup {None}

\* `\w`: a letter, a digit or an underscore.
word_char(c) ==
    \/ c \in Range(LowerCase) \cup Range(UpperCase) \cup Range(DigitChars)
    \/ c = "_"

\* The end of the longest run of word characters that starts at position i.
run_end(text, i) ==
    CHOOSE j \in i .. Len(text) :
        /\ \A k \in i .. j : word_char(text[k])
        /\ j = Len(text) \/ ~word_char(text[j + 1])

\* `re.findall(marker + r'(\w+)', text)`: the scan from the left, each match
\* giving its group and the scan going on behind the match.
findall(marker, text) ==
    LET F[pos \in 1 .. Len(text) + 1] ==
          IF pos > Len(text) THEN <<>>
          ELSE IF /\ text[pos] = marker
                  /\ pos < Len(text)
                  /\ word_char(text[pos + 1])
               THEN <<SubSeq(text, pos + 1, run_end(text, pos + 1))>>
                        \o F[run_end(text, pos + 1) + 1]
               ELSE F[pos + 1]
    IN F[1]

\* `if not text: return []`, then `list(set(re.findall(..., text.lower())))`:
\* the list has the elements of the set in no particular order, so the
\* result is the set.
extract(marker, text) ==
    IF text = None \/ text = <<>> THEN {}
    ELSE Range(findall(marker, lower(text)))

extract_hashtags(text) == extract("#", text)

extract_mentions(text) == extract("@", text)

an_extract_hashtags ==
    /\ pc = "an_pure"
    /\ \E text \in Texts :
          /\ an_call' = [fn |-> "extract_hashtags", marker |-> "#", text |-> text]
          /\ an_result' = [found |-> extract_hashtags(text)]
    /\ an_calls' = an_calls + 1
    /\ pc' = "an_done"
    /\ UNCHANGED <<collector_vars, hashtag_analysis, util_vars>>

an_extract_mentions ==
    /\ pc = "an_pure"
    /\ \E text \in Texts :
          /\ an_call' = [fn |-> "extract_mentions", marker |-> "@", text |-> text]
          /\ an_result' = [found |-> extract_mentions(text)]
    /\ an_calls' = an_calls + 1
    /\ pc' = "an_done"
    /\ UNCHANGED <<collector_vars, hashtag_analysis, util_vars>>

\* ------------------------------------------------------------ analysis store
\* The posts an analysis finds in the store.
StoredPosts ==
    <<[post_id |-> "p1", author_user_id |-> "a", hashtags |-> <<"food">>,
       like_count |-> 999, post_type |-> "photo"],
      [post_id |-> "p2", author_user_id |-> "a",
       hashtags |-> <<"style", "food">>, like_count |-> 10000,
       post_type |-> "video"],
      [post_id |-> "p3", author_user_id |-> "a", hashtags |-> <<>>,
       like_count |-> 100000, post_type |-> "photo"]>>

\* The TargetUserLike rows the store can hold for the target: post_id is
\* nullable, and so are like_timestamp and network_depth.
LikeRows ==
    [target_user_id : {Root},
     post_id : {StoredPosts[i].post_id : i \in DOMAIN StoredPosts} \cup {"NULL"},
     like_timestamp : {<<>>, <<9>>, <<38>>},
     network_depth : 0 .. 2]

\* An analysis starts on a store that holds the target user, the posts and
\* some likes (written through the ORM, as demo_analysis.py does), or is a
\* call of one of the functions that read no table.
AnInit ==
    /\ pc \in {"an_idle", "an_pure"}
    /\ op = "analysis"
    /\ faults = 0
    /\ users = <<[user_id |-> Root, username |-> Root, follower_count |-> 0],
                 [user_id |-> "a", username |-> "a", follower_count |-> 0]>>
    /\ user_network = <<>>
    /\ posts = StoredPosts
    /\ target_user_likes \in SeqsUpTo(LikeRows, MaxLikes)
    /\ pc = "an_pure" => target_user_likes = <<>>
    /\ follow = [u \in Users |-> <<>>]
    /\ max_depth = 0
    /\ max_users_per_level = 1
    /\ queue = <<>>
    /\ visited = {}
    /\ network_users = <<>>
    /\ cur = [user |-> Root, depth |-> 0]
    /\ following = <<>>
    /\ min_likes = DEFAULT_MIN_LIKES
    /\ che_rest = <<>>
    /\ che_posts = <<>>
    /\ high_engagement_posts = <<>>
    /\ post_list = <<>>
    /\ ctl_rest = <<>>
    /\ found_likes = <<>>
    /\ api_log = <<>>
    /\ expand_log = <<>>
    /\ edge_writes = <<>>
    /\ store_log = <<>>
    /\ rate_waits = 0
    /\ hashtag_analysis = <<>>
    /\ an_call = [fn |-> "none"]
    /\ an_result = [raised |-> "none"]
    /\ an_calls = 0
    /\ utilities_unused

AnNext ==
    \/ an_generate_comprehensive_report
    \/ an_analyze_content_preferences
    \/ an_analyze_engagement_patterns
    \/ an_analyze_hashtag_preferences
    \/ an_generate_recommendations
    \/ an_categorize_post
    \/ an_extract_hashtags
    \/ an_extract_mentions

AnalysisSpec == AnInit /\ [][AnNext]_vars

\* ------------------------------------------------------------ analysis calls
\* The analysis call made last is fn, for a target user.
Called(fn) == an_call.fn = fn

\* The store holds no User row / no TargetUserLike row for the target of the
\* call made last.
TargetAbsent ==
    \A i \in DOMAIN users : users[i].user_id # an_call.target_user_id

TargetHasNoLikes ==
    \A i \in DOMAIN target_user_likes :
        target_user_likes[i].target_user_id # an_call.target_user_id

\* The result is an error result: an error entry and nothing else.
ErrorOnly(result) == DOMAIN result = {"error"}

\* ------------------------------------------------------------ C11
\* C11: generate_comprehensive_report for a target user id that is not in the
\* store returns a result holding only an error entry (no analysis section,
\* no recommendations), and writes no record.
C11_AbsentTargetErrorOnly ==
    (Called("generate_comprehensive_report") /\ TargetAbsent) =>
        /\ ErrorOnly(an_result)
        /\ hashtag_analysis = <<>>

\* A report has been asked for an absent target on a store that holds likes
\* with hashtags for another user.
C11_Witness ==
    /\ Called("generate_comprehensive_report")
    /\ TargetAbsent
    /\ \E i \in DOMAIN target_user_likes : has_tagged_post(target_user_likes[i])

\* ------------------------------------------------------------ C12
\* The dict an analysis result holds under key, empty when it has no such key.
DictOf(result, key) == IF key \in DOMAIN result THEN result[key] ELSE <<>>

\* The rules whose precondition data is non-empty, in rule order.
RulesWithData(content_prefs, engagement_patterns, hashtag_prefs) ==
    (IF DictOf(content_prefs, "category_preferences") # <<>>
     THEN <<"category">> ELSE <<>>)
    \o (IF DictOf(engagement_patterns, "peak_hours") # <<>>
        THEN <<"timing">> ELSE <<>>)
    \o (IF DictOf(hashtag_prefs, "top_hashtags") # <<>>
        THEN <<"hashtags">> ELSE <<>>)
    \o (IF DictOf(engagement_patterns, "network_depth_distribution") # <<>>
        THEN <<"network">> ELSE <<>>)

\* C12: for every combination of empty and non-empty analysis results
\* _generate_recommendations returns, without failing, a list of 0 to 4
\* entries: exactly one entry per rule whose data is non-empty.
C12_RuleSkippedWhenDataEmpty ==
    Called("_generate_recommendations") =>
        /\ "recommendations" \in DOMAIN an_result
        /\ [i \in DOMAIN an_result.recommendations |->
               an_result.recommendations[i].rule]
             = RulesWithData(an_call.content_prefs, an_call.engagement_patterns,
                             an_call.hashtag_prefs)

\* ------------------------------------------------------------ C13
\* The key is one of those with the highest count of a non-empty dict.
Highest(d, key) ==
    \E i \in DOMAIN d : d[i][1] = key /\ \A j \in DOMAIN d : d[j][2] <= d[i][2]

RuleRank(rule) ==
    CASE rule = "category" -> 1 [] rule = "timing" -> 2
      [] rule = "hashtags" -> 3 [] rule = "network" -> 4

\* The entries are in the order category, timing, hashtags, network.
InRuleOrder(recs) ==
    \A i, j \in DOMAIN recs : i < j => RuleRank(recs[i].rule) < RuleRank(recs[j].rule)

\* With both dicts non-empty the list names a category of highest count and,
\* later, an hour of highest count as '<hour>:00'.
NamesTopCategoryThenHour(category_preferences, peak_hours, result) ==
    (category_preferences # <<>> /\ peak_hours # <<>>) =>
        /\ "recommendations" \in DOMAIN result
        /\ \E i, j \in DOMAIN result.recommendations :
              /\ i < j
              /\ result.recommendations[i].rule = "category"
              /\ Highest(category_preferences,
                         result.recommendations[i].text[1])
              /\ result.recommendations[j].rule = "timing"
              /\ \E h \in 0 .. 23 :
                    /\ Highest(peak_hours, h)
                    /\ Contains(result.recommendations[j].text,
                                digits(h) \o <<":", "0", "0">>)

\* C13: whenever category preferences and peak hours are both non-empty the
\* recommendations hold an entry naming the category with the highest count
\* and, after it, an entry naming the hour with the highest count as
\* '<hour>:00'; emitted entries follow the order category, timing, hashtags,
\* network.  Stated for PreferenceAnalyzer._generate_recommendations on any
\* analysis results, and for the recommendations of a report of either
\* analyzer.
C13_TopCategoryBeforeTopHour ==
    /\ (Called("_generate_recommendations")
            /\ an_call.analyzer = "PreferenceAnalyzer") =>
          /\ NamesTopCategoryThenHour(
                 DictOf(an_call.content_prefs, "category_preferences"),
                 DictOf(an_call.engagement_patterns, "peak_hours"), an_result)
          /\ "recommendations" \in DOMAIN an_result
                => InRuleOrder(an_result.recommendations)
    /\ (Called("generate_comprehensive_report") /\ ~TargetAbsent) =>
          /\ NamesTopCategoryThenHour(
                 DictOf(analyze_content_preferences(an_call.analyzer,
                            an_call.target_user_id), "category_preferences"),
                 DictOf(analyze_engagement_patterns(an_call.analyzer,
                            an_call.target_user_id), "peak_hours"), an_result)
          /\ "recommendations" \in DOMAIN an_result
                => InRuleOrder(an_result.recommendations)

\* PreferenceAnalyzer has been given category counts whose first key is not
\* the highest, with peak hours, and has answered with four entries.
C13_Witness ==
    /\ Called("_generate_recommendations")
    /\ an_call.analyzer = "PreferenceAnalyzer"
    /\ DictOf(an_call.content_prefs, "category_preferences")
          = <<<<"travel", 5>>, <<"food", 10>>>>
    /\ DictOf(an_call.engagement_patterns, "peak_hours") # <<>>
    /\ "recommendations" \in DOMAIN an_result
    /\ Len(an_result.recommendations) = 4

\* ------------------------------------------------------------ C14
\* C14: for every non-empty set of likes of the target the four engagement
\* tier counts returned by content_preferences sum to total_likes_analyzed,
\* also when a like refers to no stored post.
C14_TiersSumToTotal ==
    (Called("_analyze_content_preferences") /\ ~TargetHasNoLikes) =>
        /\ "engagement_level_preferences" \in DOMAIN an_result
        /\ sum_values(an_result.engagement_level_preferences)
              = an_result.total_likes_analyzed

\* ------------------------------------------------------------ C15
\* C15: engagement_patterns never fails on an empty-sequence reduction: for
\* every list of likes, also a non-empty one without any timestamp, it returns
\* the statistics or an explicit no-data result.
C15_NoEmptyReductionFailure ==
    Called("_analyze_engagement_patterns") =>
        \/ ErrorOnly(an_result)
        \/ "date_range" \in DOMAIN an_result

\* ------------------------------------------------------------ C16
\* C16: when the target user has no likes, content_preferences and
\* engagement_patterns each return an explicit no-data error result (an error
\* entry and no statistics) instead of raising or computing on empty data.
C16_NoLikesErrorResult ==
    ((Called("_analyze_content_preferences")
         \/ Called("_analyze_engagement_patterns")) /\ TargetHasNoLikes) =>
        ErrorOnly(an_result)

\* engagement_patterns has been asked for the stored target user on a store
\* without likes.
C16_Witness ==
    /\ Called("_analyze_engagement_patterns")
    /\ an_call.target_user_id = Root
    /\ ~TargetAbsent
    /\ target_user_likes = <<>>
    /\ ErrorOnly(an_result)

\* ------------------------------------------------------------ C17
\* C17: when the target user has no likes, the hashtag analysis section is an
\* explicit error-shaped no-data result, like the other sections, and not an
\* empty statistics result.
C17_HashtagSectionNoData ==
    /\ (Called("_analyze_hashtag_preferences") /\ TargetHasNoLikes) =>
          "error" \in DOMAIN an_result
    /\ (Called("generate_comprehensive_report") /\ ~TargetAbsent
            /\ TargetHasNoLikes /\ "hashtag_analysis" \in DOMAIN an_result) =>
          "error" \in DOMAIN an_result.hashtag_analysis

\* ------------------------------------------------------------ C18
\* The table order the categorizer is specified with.
TableOrder ==
    <<"food", "travel", "fitness", "technology", "lifestyle", "business",
      "art", "music", "sports", "fashion">>

\* The categories one of whose keywords occurs in the joined lowercase
\* hashtags, as positions of TableOrder.
MatchingCategories(hashtags) ==
    {i \in DOMAIN TableOrder :
        category_matches(TableOrder[i], lower(join(hashtags)))}

\* C18: when the hashtags of a post contain keywords of several categories,
\* categorize returns the category that comes first in the order food, travel,
\* fitness, technology, lifestyle, business, art, music, sports, fashion; when
\* they contain keywords of exactly one category it returns that category;
\* for both categorizer implementations.
C18_FirstInTableOrder ==
    (Called("categorize_post") /\ MatchingCategories(an_call.hashtags) # {}) =>
        \E i \in MatchingCategories(an_call.hashtags) :
            /\ \A j \in MatchingCategories(an_call.hashtags) : i <= j
            /\ an_result.category = TableOrder[i]

\* ------------------------------------------------------------ C19
\* C19: categorize is total: for every hashtag list it returns one value from
\* the ten categories plus 'uncategorized' and 'general'; 'uncategorized'
\* exactly when the list is empty, 'general' exactly when it is non-empty and
\* no keyword of any category is a substring of the joined lowercase hashtags.
C19_CategorizeTotal ==
    Called("categorize_post") =>
        /\ an_result.category
              \in Range(TableOrder) \cup {"uncategorized", "general"}
        /\ an_result.category = "uncategorized" <=> an_call.hashtags = <<>>
        /\ an_result.category = "general" <=>
              (an_call.hashtags # <<>>
                  /\ MatchingCategories(an_call.hashtags) = {})

\* The categorizer has been given a non-empty list with an upper-case hashtag
\* and has found its category.
C19_Witness ==
    /\ Called("categorize_post")
    /\ an_call.hashtags = <<"xyz", "FOOD">>
    /\ an_result.category = "food"

\* ------------------------------------------------------------ C20
\* The frequency stored for (hashtag, target), 0 when no row holds the pair.
StoredFrequency(table, hashtag, target_user_id) ==
    LET rows == {i \in DOMAIN table :
                    /\ table[i].hashtag = hashtag
                    /\ table[i].target_user_id = target_user_id}
    IN IF rows = {} THEN 0 ELSE table[CHOOSE i \in rows : TRUE].frequency

\* A run of DataProcessor.analyze_hashtag_preferences leaves one row per
\* counted (hashtag, target) whose frequency is the one stored before plus
\* the occurrences the run counted.
C20_RunAddsCounted ==
    (/\ an_calls' = an_calls + 1
     /\ an_call'.fn = "_analyze_hashtag_preferences"
     /\ an_call'.analyzer = "PreferenceAnalyzer") =>
        \A k \in DOMAIN an_result'.top_hashtags :
            LET pair == an_result'.top_hashtags[k]
            IN /\ Cardinality({i \in DOMAIN hashtag_analysis' :
                      /\ hashtag_analysis'[i].hashtag = pair[1]
                      /\ hashtag_analysis'[i].target_user_id
                            = an_call'.target_user_id}) = 1
               /\ StoredFrequency(hashtag_analysis', pair[1],
                                  an_call'.target_user_id)
                     = StoredFrequency(hashtag_analysis, pair[1],
                                       an_call'.target_user_id) + pair[2]

\* C20: each run of the hashtag analysis upserts one HashtagStat per (hashtag,
\* target user) and increments the frequency already stored for the pair by
\* the newly counted occurrences: a running count across analysis runs.
C20_FrequencyIsRunningCount == [][C20_RunAddsCounted]_vars

\* ------------------------------------------------------------ C21
\* The hashtags of the posts the target's likes refer to, like by like, each
\* post's hashtags in the order the post lists them.
LikedHashtags(target_user_id) ==
    LET tagged == SelectSeq(likes_of(target_user_id), has_tagged_post)
    IN Flatten([i \in DOMAIN tagged |-> post_of(tagged[i])[1].hashtags])

\* The position at which a hashtag is seen first.
FirstSeen(seen, hashtag) ==
    CHOOSE i \in DOMAIN seen :
        seen[i] = hashtag /\ \A j \in 1 .. i - 1 : seen[j] # hashtag

\* The stored posts the target has liked that carry the hashtag.
LikedPostsCarrying(target_user_id, hashtag) ==
    {posts[p].post_id : p \in {q \in DOMAIN posts :
        /\ hashtag \in Range(posts[q].hashtags)
        /\ \E i \in DOMAIN target_user_likes :
              /\ target_user_likes[i].target_user_id = target_user_id
              /\ target_user_likes[i].post_id = posts[q].post_id}}

\* C21: top_hashtags returned by hashtag_preferences has at most top_n (20)
\* entries, ordered by count descending with equal counts in first-seen
\* order; no hashtag left out has a higher count than one included; each
\* entry's count is the number of liked posts carrying that hashtag.
C21_TopHashtagsRanked ==
    Called("_analyze_hashtag_preferences") =>
        LET top == an_result.top_hashtags
            seen == LikedHashtags(an_call.target_user_id)
            liked(h) == Cardinality(LikedPostsCarrying(an_call.target_user_id, h))
        IN /\ Len(top) <= HASHTAGS_RETURNED
           /\ \A i, j \in DOMAIN top :
                 i < j =>
                    \/ top[i][2] > top[j][2]
                    \/ /\ top[i][2] = top[j][2]
                       /\ FirstSeen(seen, top[i][1]) < FirstSeen(seen, top[j][1])
           /\ \A h \in Range(seen) \ Range(dict_keys(top)) :
                 \A i \in DOMAIN top : liked(h) <= top[i][2]
           /\ \A i \in DOMAIN top : top[i][2] = liked(top[i][1])

\* ------------------------------------------------------------ C22
Last(s) == s[Len(s)]

\* Every row of the table before is still there afterwards, in its place
\* (an upsert may have refreshed its other columns).
RowsKept(before, after, cols) ==
    /\ Len(after) >= Len(before)
    /\ \A i \in DOMAIN before : Proj(after[i], cols) = Proj(before[i], cols)

\* A step by which a store_* call fails: the store is as it was before the
\* call, the call returns to its caller, and the loop it was made from goes
\* on with the rest of the item.  No step of any kind removes a row written
\* earlier or ends the run with an exception.
C22_FailedCallLeavesStore ==
    /\ (store_log' # store_log /\ Last(store_log').fault) =>
          /\ db' = db
          /\ pc' = "direct"
    /\ (pc = "bsn_for" /\ edge_writes' # edge_writes
            /\ Last(edge_writes').fault) =>
          /\ user_network' = user_network
          /\ RowsKept(users, users', {"user_id"})
          /\ network_users' = Append(network_users, Last(edge_writes').target)
          /\ pc' = "bsn_for"
    /\ (pc = "che_for_post" /\ faults' = faults + 1) =>
          /\ db' = db
          /\ Len(high_engagement_posts') = Len(high_engagement_posts) + 1
          /\ pc' = "che_for_post"
    /\ (pc = "ctl_for" /\ faults' = faults + 1) =>
          /\ db' = db
          /\ pc' \in {"ctl_for", "ctl_wait"}
    /\ RowsKept(users, users', {"user_id"})
    /\ RowsKept(posts, posts', {"post_id"})
    /\ RowsKept(user_network, user_network', DOMAIN [source_user_id |-> 0,
           target_user_id |-> 0, relationship_type |-> 0, network_depth |-> 0])
    /\ RowsKept(target_user_likes, target_user_likes',
                {"target_user_id", "post_id"})
    /\ pc' # "aborted"

MaxRetries == 3
\* Longest jitter, `random.uniform(0, 1)`, in seconds.
JITTER_MAX == 1

\* The collector and the analyzers are not running and their state is empty.
others_unused ==
    /\ faults = 0
    /\ users = <<>>
    /\ user_network = <<>>
    /\ posts = <<>>
    /\ target_user_likes = <<>>
    /\ follow = [u \in Users |-> <<>>]
    /\ max_depth = 0
    /\ max_users_per_level = 1
    /\ queue = <<>>
    /\ visited = {}
    /\ network_users = <<>>
    /\ cur = [user |-> Root, depth |-> 0]
    /\ following = <<>>
    /\ min_likes = DEFAULT_MIN_LIKES
    /\ che_rest = <<>>
    /\ che_posts = <<>>
    /\ high_engagement_posts = <<>>
    /\ post_list = <<>>
    /\ ctl_rest = <<>>
    /\ found_likes = <<>>
    /\ api_log = <<>>
    /\ expand_log = <<>>
    /\ edge_writes = <<>>
    /\ store_log = <<>>
    /\ rate_waits = 0
    /\ hashtag_analysis = <<>>
    /\ an_call = [fn |-> "none"]
    /\ an_result = [raised |-> "none"]
    /\ an_calls = 0

\* ------------------------------------------------ retry_with_backoff
\* What one call of func() can do: return a value or raise an exception.
FuncOutcomes ==
    {[ok |-> TRUE, value |-> "result"],
     [ok |-> FALSE, value |-> "ConnectionError"],
     [ok |-> FALSE, value |-> "TimeoutError"]}

\* A test for the last attempt that never holds.
last_attempt_never(attempt, max_retries) == FALSE

\* `if attempt == max_retries - 1: raise e`
last_attempt(attempt, max_retries) == attempt = max_retries - 1

\* `base_delay * (2 ** attempt) + random.uniform(0, 1)`
backoff_delay(base_delay, attempt, jitter) == base_delay * (2 ^ attempt) + jitter

\* Entry of retry_with_backoff(func, max_retries, base_delay).
retry_with_backoff ==
    /\ pc = "rt_idle"
    /\ \E max_retries \in 0 .. MaxRetries, base_delay \in {1, 2} :
          retry' = [called |-> TRUE, max_retries |-> max_retries,
                    base_delay |-> base_delay, attempt |-> 0,
                    calls |-> <<>>, sleeps |-> <<>>,
                    outcome |-> [kind |-> "running"]]
    /\ pc' = "rt_for"
    /\ UNCHANGED <<op, faults, db, crawl_vars, network_users, che_vars,
                   ctl_vars, api_log, edge_writes, store_log, rate_waits,
                   an_vars, clock, limiter, wait_log>>

\* `for attempt in range(max_retries)` is exhausted: `return None`.
rt_return_none ==
    /\ pc = "rt_for"
    /\ retry.attempt >= retry.max_retries
    /\ retry' = [retry EXCEPT !.outcome = [kind |-> "returned", value |-> "None"]]
    /\ pc' = "rt_done"
    /\ UNCHANGED <<op, faults, db, crawl_vars, network_users, che_vars,
                   ctl_vars, api_log, edge_writes, store_log, rate_waits,
                   an_vars, clock, limiter, wait_log>>

\* One pass of the loop up to the sleep: `return func()`, or the except
\* branch, which raises after the last attempt.
rt_try ==
    /\ pc = "rt_for"
    /\ retry.attempt < retry.max_retries
    /\ \E did \in FuncOutcomes :
          LET called == [retry EXCEPT !.calls = Append(@, did)]
          IN IF did.ok
             THEN /\ retry' = [called EXCEPT !.outcome =
                                  [kind |-> "returned", value |-> did.value]]
                  /\ pc' = "rt_done"
             ELSE IF last_attempt(retry.attempt, retry.max_retries)
                  THEN /\ retry' = [called EXCEPT !.outcome =
                                       [kind |-> "raised", value |-> did.value]]
                       /\ pc' = "rt_done"
                  ELSE /\ retry' = called
                       /\ pc' = "rt_sleep"
    /\ UNCHANGED <<op, faults, db, crawl_vars, network_users, che_vars,
                   ctl_vars, api_log, edge_writes, store_log, rate_waits,
                   an_vars, clock, limiter, wait_log>>

\* `time.sleep(delay)` and the step to the next attempt.
rt_sleep ==
    /\ pc = "rt_sleep"
    /\ \E jitter \in {0, JITTER_MAX} :
          LET delay == backoff_delay(retry.base_delay, retry.attempt, jitter)
          IN /\ retry' = [retry EXCEPT !.sleeps = Append(@, delay),
                                       !.attempt = @ + 1]
             /\ clock' = clock + delay
    /\ pc' = "rt_for"
    /\ UNCHANGED <<op, faults, db, crawl_vars, network_users, che_vars,
                   ctl_vars, api_log, edge_writes, store_log, rate_waits,
                   an_vars, limiter, wait_log>>

RetryInit ==
    /\ pc = "rt_idle"
    /\ op = "retry_with_backoff"
    /\ others_unused
    /\ utilities_unused

RetryNext ==
    \/ retry_with_backoff
    \/ rt_return_none
    \/ rt_try
    \/ rt_sleep

RetrySpec == RetryInit /\ [][RetryNext]_vars

\* ------------------------------------------------------------ C23
\* C23: retry_with_backoff calls the operation until its first success or
\* until max_retries attempts have failed: it returns the result of the
\* first successful attempt without calling again, never calls more than
\* max_retries times, raises the error of the last attempt when all fail,
\* and waits between attempts only: the wait before attempt k+1 is at least
\* base_delay * 2^(k-1), and there is no wait after the final failure.
C23_RetriesUntilSuccessOrLimit ==
    retry.called =>
        LET calls == retry.calls
            n == Len(calls)
        IN /\ n <= retry.max_retries
           /\ \A k \in 1 .. n - 1 : ~calls[k].ok
           /\ Len(retry.sleeps) = (IF n = 0 THEN 0
                                   ELSE IF pc = "rt_for" THEN n ELSE n - 1)
           /\ \A k \in DOMAIN retry.sleeps :
                 retry.sleeps[k] >= retry.base_delay * (2 ^ (k - 1))
           /\ pc = "rt_done" =>
                 \/ /\ n >= 1
                    /\ calls[n].ok
                    /\ retry.outcome = [kind |-> "returned", value |-> calls[n].value]
                 \/ /\ n >= 1
                    /\ n = retry.max_retries
                    /\ ~calls[n].ok
                    /\ retry.outcome = [kind |-> "raised", value |-> calls[n].value]
                 \/ /\ n = 0
                    /\ retry.max_retries = 0
                    /\ retry.outcome = [kind |-> "returned", value |-> "None"]

\* Three attempts have failed with different errors, two waits were taken,
\* and the error of the third attempt was raised.
C23_Witness ==
    /\ pc = "rt_done"
    /\ retry.called
    /\ retry.max_retries = 3
    /\ Len(retry.calls) = 3
    /\ retry.calls[2].value # retry.calls[3].value
    /\ retry.outcome = [kind |-> "raised", value |-> retry.calls[3].value]
    /\ Len(retry.sleeps) = 2

\* ------------------------------------------------------------ C24
\* The longest the rate-limit pauses taken between two external calls of the
\* run can have lasted, in seconds.
LongestPauseBetween(i, j) ==
    LET longest == CHOOSE d \in rate_limit_wait : \A e \in rate_limit_wait : e <= d
    IN (api_log[j].waits - api_log[i].waits) * longest

\* C24: crawl and collection respect the hourly API-call cap: once the
\* external calls made in the current hour reach MAX_API_CALLS_PER_HOUR the
\* next rate-limit pause blocks until the hourly window resets, so that no
\* more than the maximum number of calls is issued in one window: a call and
\* the call made MAX_API_CALLS_PER_HOUR calls later are separated by pauses
\* that fill the window.
C24_HourlyCapRespected ==
    \A i, j \in DOMAIN api_log :
        j - i >= MAX_API_CALLS_PER_HOUR => LongestPauseBetween(i, j) >= HOUR

\* ------------------------------------------------------------ C25
\* The operation is at the head of its loop or has returned.
BetweenItems == pc \in {"bsn_while", "che_for_user", "ctl_for", "done"}

TokensAfter(marker, text) ==
    {SubSeq(text, i + 1, j) : <<i, j>> \in
        {ij \in (DOMAIN text) \X (DOMAIN text) :
            /\ text[ij[1]] = marker
            /\ ij[1] < ij[2]
            /\ \A k \in ij[1] + 1 .. ij[2] : word_char(text[k])
            /\ ij[2] = Len(text) \/ ~word_char(text[ij[2] + 1])}}

\* The token with every upper-case letter replaced by its lower-case letter.
Folded(token) ==
    [k \in DOMAIN token |->
        IF token[k] = "A" THEN "a" ELSE token[k]]

\* C26: extract_hashtags and extract_mentions return the case-folded,
\* duplicate-free collection of the word tokens that follow '#' (or '@') in
\* the text, compared as a set: a token that occurs several times or in
\* different letter case appears once, in lower case; empty or missing text
\* gives an empty result.
C26_ExtractsFoldedTokens ==
    (Called("extract_hashtags") \/ Called("extract_mentions")) =>
        /\ an_call.text \in {None, <<>>} => an_result.found = {}
        /\ an_call.text # None =>
              an_result.found
                 = {Folded(t) : t \in TokensAfter(an_call.marker, an_call.text)}
        /\ \A t \in an_result.found :
              \A k \in DOMAIN t : t[k] \notin Range(UpperCase)

\* The same hashtag was written twice, in different case: it is returned once.
C26_Witness ==
    /\ Called("extract_hashtags")
    /\ an_call.text = <<"#", "a", "#", "A">>
    /\ an_result.found = {<<"a">>}

\* ------------------------------------------------------------ RateLimiter
\* wait() calls made on one RateLimiter.
MaxWaits == 4

\* time.time() when the RateLimiter is made: later than one window after the
\* epoch, which `last_request = 0` stands for.
StartTime == 2 * HOUR

\* Seconds the caller lets pass between two wait() calls.
Gaps == {0, RATE_LIMIT_MAX, HOUR, HOUR + 1}

\* A quota test that never holds.
quota_reached_never(request_count) == FALSE

\* `if self.request_count >= settings.MAX_API_CALLS_PER_HOUR`
quota_reached(request_count) == request_count >= MAX_API_CALLS_PER_HOUR

\* `if current_time - self.hour_start > 3600`
window_over(current_time, hour_start) == current_time - hour_start > HOUR

\* RateLimiter.__init__ with the defaults of settings.
RateLimiter ==
    /\ pc = "rl_new"
    /\ limiter' = [made |-> TRUE, min_delay |-> RATE_LIMIT_MIN,
                   max_delay |-> RATE_LIMIT_MAX, last_request |-> 0,
                   request_count |-> 0, hour_start |-> clock]
    /\ pc' = "rl_idle"
    /\ UNCHANGED <<op, faults, db, crawl_vars, network_users, che_vars,
                   ctl_vars, api_log, edge_writes, store_log, rate_waits,
                   an_vars, clock, wait_log, retry>>

\* The caller works between two wait() calls.
rl_time_passes ==
    /\ pc = "rl_idle"
    /\ Len(wait_log) < MaxWaits
    /\ \E gap \in Gaps : clock' = clock + gap
    /\ pc' = "rl_call"
    /\ UNCHANGED <<op, faults, db, crawl_vars, network_users, che_vars,
                   ctl_vars, api_log, edge_writes, store_log, rate_waits,
                   an_vars, limiter, wait_log, retry>>

\* RateLimiter.wait(): the hourly reset, the quota gate with its sleep, the
\* random delay measured from the time read on entry, and the bookkeeping.
wait ==
    /\ pc = "rl_call"
    /\ \E delay \in {limiter.min_delay, limiter.max_delay} :
         LET current_time == clock
             reset == window_over(current_time, limiter.hour_start)
             count1 == IF reset THEN 0 ELSE limiter.request_count
             start1 == IF reset THEN current_time ELSE limiter.hour_start
             gated == quota_reached(count1)
             wait_time == HOUR - (current_time - start1)
             time2 == IF gated THEN current_time + wait_time ELSE current_time
             count2 == IF gated THEN 0 ELSE count1
             start2 == IF gated THEN time2 ELSE start1
             elapsed == current_time - limiter.last_request
             sleep_time == IF elapsed < delay THEN delay - elapsed ELSE 0
             time3 == time2 + sleep_time
         IN /\ clock' = time3
            /\ limiter' = [limiter EXCEPT !.last_request = time3,
                                          !.request_count = count2 + 1,
                                          !.hour_start = start2]
            /\ wait_log' = Append(wait_log,
                   [entered_at |-> current_time,
                    entered_count |-> limiter.request_count,
                    entered_window |-> limiter.hour_start,
                    reset |-> reset,
                    gated |-> gated,
                    returned_at |-> time3])
    /\ pc' = "rl_idle"
    /\ UNCHANGED <<op, faults, db, crawl_vars, network_users, che_vars,
                   ctl_vars, api_log, edge_writes, store_log, rate_waits,
                   an_vars, retry>>

LimiterInit ==
    /\ pc = "rl_new"
    /\ op = "RateLimiter"
    /\ others_unused
    /\ clock = StartTime
    /\ limiter = [made |-> FALSE]
    /\ wait_log = <<>>
    /\ retry = [called |-> FALSE]

LimiterNext ==
    \/ RateLimiter
    \/ rl_time_passes
    \/ wait

LimiterSpec == LimiterInit /\ [][LimiterNext]_vars

\* ------------------------------------------------------------ C27
\* C27: RateLimiter.wait enforces the hourly quota: each time wait() returns
\* request_count is at least 1 and at most MAX_API_CALLS_PER_HOUR; a wait()
\* entered with request_count at the maximum sleeps until the end of the
\* current hourly window and restarts the count before it is counted itself;
\* the counter is reset when more than an hour has passed since the window
\* started.
C27_QuotaEnforced ==
    (limiter.made /\ pc = "rl_idle" /\ wait_log # <<>>) =>
        LET call == wait_log[Len(wait_log)]
        IN /\ limiter.request_count \in 1 .. MAX_API_CALLS_PER_HOUR
           /\ call.entered_count >= MAX_API_CALLS_PER_HOUR =>
                 /\ call.returned_at >= call.entered_window + HOUR
                 /\ limiter.hour_start >= call.entered_window + HOUR
                 /\ limiter.request_count = 1
           /\ call.entered_at - call.entered_window > HOUR =>
                 /\ limiter.hour_start >= call.entered_at
                 /\ limiter.request_count = 1

\* A wait() was entered with the count at the maximum inside the running
\* window: it slept to the end of the window and came back with count 1.
C27_Witness ==
    /\ limiter.made
    /\ pc = "rl_idle"
    /\ wait_log # <<>>
    /\ wait_log[Len(wait_log)].entered_count = MAX_API_CALLS_PER_HOUR
    /\ wait_log[Len(wait_log)].gated
    /\ ~wait_log[Len(wait_log)].reset
    /\ wait_log[Len(wait_log)].returned_at
          > wait_log[Len(wait_log)].entered_at + RATE_LIMIT_MAX
    /\ limiter.request_count = 1

\* ------------------------------------------------------------ C28
\* The frontier of a crawl: only the entry the crawl starts with has depth 0;
\* every other entry has a depth between 1 and max_depth - 1; the depths do
\* not decrease along the queue; with max_depth <= 0 nothing is fetched or
\* listed.
C28_Frontier ==
    op = "crawl" =>
        /\ \A i \in DOMAIN queue :
              \/ /\ queue[i] = [user |-> Root, depth |-> 0]
                 /\ i = 1
                 /\ visited = {}
              \/ queue[i].depth \in 1 .. max_depth - 1
        /\ \A i, j \in DOMAIN queue : i < j => queue[i].depth <= queue[j].depth
        /\ max_depth <= 0 => api_log = <<>> /\ network_users = <<>>

\* A step that pops an entry: its depth is not below that of the entry popped
\* before; if its depth is >= max_depth it is the root entry of a crawl with
\* max_depth <= 0 and the step makes no external call.
C28_Pop ==
    (op = "crawl" /\ pc = "bsn_while" /\ queue' # queue) =>
        /\ cur' = Head(queue)
        /\ queue' = Tail(queue)
        /\ cur'.depth >= cur.depth
        /\ cur'.depth >= max_depth =>
              /\ cur' = [user |-> Root, depth |-> 0]
              /\ max_depth <= 0
              /\ api_log' = api_log
              /\ visited' = visited

\* C28: frontier invariant of crawl: every queue entry other than the
\* initial (root, 0) has a depth between 1 and max_depth - 1, entries are
\* popped in non-decreasing depth order, and a popped entry whose depth is
\* >= max_depth (only the root, when max_depth <= 0) is skipped with no
\* external call, so that crawl with max_depth <= 0 returns an empty list
\* without calling the platform.
C28_FrontierInvariant == []C28_Frontier /\ [][C28_Pop]_vars

\* The frontier holds the same account at two depths.
C28_Witness ==
    /\ op = "crawl"
    /\ pc = "bsn_while"
    /\ Len(queue) = 2
    /\ queue[1].user = queue[2].user
    /\ queue[1].depth = 1
    /\ queue[2].depth = 2

\* ------------------------------------------------------------ C29
\* The list of a crawl mirrors the records handed to the edge store, one
\* entry per record and in the same order; an expanded account contributes an
\* account at most once.
C29_ListMirrorsEdgeStoreCalls ==
    op = "crawl" =>
        /\ Len(network_users) = Len(edge_writes)
        /\ \A i \in DOMAIN network_users :
              network_users[i] = edge_writes[i].target
        /\ \A i, j \in DOMAIN edge_writes :
              (/\ i # j
               /\ edge_writes[i].source = edge_writes[j].source)
                  => edge_writes[i].target # edge_writes[j].target

\* The size cap counts entries, repeats included: once the list has
\* SafetyLimit entries the loop ends and the list is returned as it is.
C29_RepeatsCountTowardCap ==
    (op = "crawl" /\ pc = "bsn_while" /\ Len(network_users) >= SafetyLimit) =>
        /\ pc' = "done"
        /\ network_users' = network_users
        /\ queue' = queue

\* C29: the list returned by crawl has one entry per followed account
\* processed, not one per distinct user: its length equals the number of
\* Edge-store calls made during the run, so a user followed by several
\* expanded users (or the root itself, when someone follows it) appears once
\* per such follower, and these repeats count toward the size cap.
C29_OneEntryPerFollowedAccount ==
    []C29_ListMirrorsEdgeStoreCalls /\ [][C29_RepeatsCountTowardCap]_vars

\* A returned list that names an account twice and the root once, and that
\* the size cap cut short with entries still queued.
C29_Witness ==
    /\ op = "crawl"
    /\ pc = "done"
    /\ queue # <<>>
    /\ Len(network_users) >= SafetyLimit
    /\ \E i, j \in DOMAIN network_users :
          i < j /\ network_users[i] = network_users[j]
    /\ \E i \in DOMAIN network_users : network_users[i] = Root

\* ------------------------------------------------------------ C30
\* The second run of DataProcessor.analyze_hashtag_preferences for the same
\* target on the same likes and posts: the table has the same rows with the
\* same frequencies, and the result has the same top_hashtags and the same
\* category counts as the first run.
C30_SecondRunChangesNothing ==
    (/\ pc = "an_hashtags"
     /\ an_calls' = an_calls + 1
     /\ an_call.analyzer = "PreferenceAnalyzer") =>
        /\ an_call' = an_call
        /\ target_user_likes' = target_user_likes
        /\ posts' = posts
        /\ Len(hashtag_analysis') = Len(hashtag_analysis)
        /\ \A i \in DOMAIN hashtag_analysis :
              /\ hashtag_analysis'[i].hashtag = hashtag_analysis[i].hashtag
              /\ hashtag_analysis'[i].target_user_id
                    = hashtag_analysis[i].target_user_id
              /\ hashtag_analysis'[i].frequency = hashtag_analysis[i].frequency
        /\ an_result'.top_hashtags = an_result.top_hashtags
        /\ an_result'.category_preferences = an_result.category_preferences

\* C30: running DataProcessor.analyze_hashtag_preferences twice for the same
\* target user on unchanged likes and posts is idempotent on the store: the
\* second run creates no new HashtagStat row and leaves every stored frequency
\* equal to its value after the first run, and both runs return the same
\* top_hashtags and category counts.
C30_HashtagAnalysisIdempotent == [][C30_SecondRunChangesNothing]_vars

\* The analysis has run twice over likes of tagged posts and rows are stored.
C30_Witness ==
    /\ pc = "an_hashtags"
    /\ an_calls = 2
    /\ an_call.analyzer = "PreferenceAnalyzer"
    /\ an_result.top_hashtags # <<>>
    /\ an_result.category_preferences # <<>>
    /\ Len(hashtag_analysis) >= 2
    /\ \E i \in DOMAIN hashtag_analysis : hashtag_analysis[i].frequency >= 2

====
